---- MODULE Spec2Model ----
(***************************************************************************)
(* A model of the MyST rendering pipeline of src/src/utils/markdown.ts.    *)
(*                                                                         *)
(* Text is modelled as a sequence of tokens.  A token is the smallest      *)
(* piece of text that the regular expressions of the pipeline tell apart:  *)
(* a fence line, an option line, a "$$" delimiter, a \label command, a     *)
(* reference, a run of plain text.  Every token is a 5-tuple               *)
(* <<kind, a, b, c, n>>; a, b and c are strings and n is a number,         *)
(* whatever the kind.  The passes of the pipeline are translated as they   *)
(* work on the text: each String.replace scans the text left to right,     *)
(* finds the leftmost match, replaces it and goes on behind it.            *)
(***************************************************************************)
EXTENDS Integers, Sequences, FiniteSets, TLC

VARIABLES
    \* parseMystMath
    doc,        \* the article, block by block (see Expand)
    content,    \* the argument of parseMystMath: the text of doc
    out,        \* the part of the running replace() already produced
    rest,       \* the part of the running replace() not yet scanned
    pass,       \* the position in parseMystMath: index into Passes
    equations,  \* the registry: label -> number
    eqCounter,  \* the counter
    \* parseMystDirectives (the outermost call)
    lines,      \* the lines of its argument
    lineIdx,    \* the loop variable i: the line the scan is at
    result,     \* the output so far
    fixture,    \* the nest of directives that lines was written from, or <<>>
    \* renderMarkdownContent, on one directive written with either fence
    source,     \* the directive: <<name, title argument, option lines, body>>
    rendered,   \* the variable result of lines 803-805, for each fence family
    stage,      \* the last assignment to it that was executed
    \* the build
    isDev,      \* import.meta.env.DEV
    \* BlogPost.loadPost and fetchBlogContent
    readme,     \* the text that fetchBlogContent loads
    built,      \* whether fetchMystBuiltContent finds built HTML
    blogPost,   \* the local blogPost of loadPost
    shownPost,  \* the state post of the component
    error,      \* the state error of the component
    loading,    \* the state loading of the component
    pc,         \* the position in loadPost
    \* parseMystFigures
    figContent, \* its argument
    targetTable, \* the table targets
    figOut,     \* the part of the second replace() already produced
    figRest,    \* the part of the second replace() not yet scanned
    figPc,      \* the position in parseMystFigures
    \* the path rewriting of renderMarkdownContent, lines 819-839
    category,   \* the argument category
    slug,       \* the argument slug
    htmlContent, \* the src attributes of the HTML, in the order of the text
    processedHtml, \* the same attributes in the HTML being rewritten
    replaceIdx, \* the number of replace() calls on it that have run
    \* renderMarkdownContent, call by call
    calls,      \* the locals of each call
    running,    \* the call that runs, 0 when none does
    \* BlogPost, the effect that builds the table of contents
    headers,    \* the h2 and h3 elements of the content: <<text, id>>
    usedIds,    \* the map usedIds
    toc,        \* the items that headers.map has produced so far
    \* BlogPost, its props and the calls of loadPost that its effect started
    route,      \* the props: the post that the page is asked to show
    loads,      \* the calls of loadPost: the post each loads and where it is
    relatedPosts, \* the state relatedPosts
    \* BlogCard
    blog,       \* the prop blog: whether it has a thumbnail, and its alternates
    altUrlIndex, \* the state altUrlIndex
    useFallback, \* the state useFallback
    shownUrls,  \* the URLs that the card has shown, in their order
    \* the prefetch worker, for one PRELOAD_BLOGS message
    blogs,      \* the number of blogs of the message
    batchStart, \* the loop variable i
    fetches,    \* the callbacks of the running batch: blog -> where it is
    posted,     \* the number of PRELOAD_COMPLETE messages posted
    workerPc    \* the position in the handler

mathVars == <<doc, content, out, rest, pass, equations, eqCounter>>
dirVars  == <<lines, lineIdx, result, fixture>>
pipeVars == <<source, rendered, stage>>
pageVars == <<readme, built, blogPost, shownPost, error, loading, pc>>
figVars  == <<figContent, targetTable, figOut, figRest, figPc>>
pathVars == <<category, slug, htmlContent, processedHtml, replaceIdx>>
callVars == <<calls, running>>
renderVars == <<isDev, pageVars, figVars, pathVars, callVars>>
tocVars  == <<headers, usedIds, toc>>
loadVars == <<route, loads, relatedPosts>>
cardVars == <<blog, altUrlIndex, useFallback, shownUrls>>
workerVars == <<blogs, batchStart, fetches, posted, workerPc>>
uiVars   == <<tocVars, loadVars, cardVars, workerVars>>
vars     == <<mathVars, dirVars, pipeVars, renderVars, uiVars>>

(***************************************************************************)
(* Bounds of the model.                                                    *)
(***************************************************************************)
MaxBlocks == 3

(***************************************************************************)
(* Tokens.                                                                 *)
(***************************************************************************)
Tok(k, a, b, c, n) == <<k, a, b, c, n>>
Kind(t) == t[1]

\* Source tokens.
\* "```{name} title" or ":::{name} title": a directive's opening line
\* (family is "backtick" or "colon", len the number of fence characters)
OpenTok(family, len, name, title) == Tok("open", family, name, title, len)
CloseTok(family, len) == Tok("close", family, "", "", len) \* a line holding only the fence
OptTok(key, value)   == Tok("opt", key, value, "", 0)     \* ":key: value" line
IndentedOpt(key, value) == Tok("opt", key, value, " ", 0) \* the same behind white space
DDTok                == Tok("dd", "", "", "", 0)          \* "$$"
SufTok(label)        == Tok("suf", label, "", "", 0)      \* "(label)" right behind a "$$"
BeginTok(env)        == Tok("begin", env, "", "", 0)      \* "\begin{env}"
EndTok(env)          == Tok("end", env, "", "", 0)        \* "\end{env}"
LabelTok(label)      == Tok("label", label, "", "", 0)    \* "\label{label}"
EqRefTok(label)      == Tok("eqref", label, "", "", 0)    \* "{eq}`label`"
LinkTok(label)       == Tok("link", label, "", "", 0)     \* "[](#label)"
MathRoleTok          == Tok("mrole", "", "", "", 0)       \* "{math}`x`"
InlineTok            == Tok("im", "", "", "", 0)          \* "$x$"
TxtTok(s)            == Tok("txt", s, "", "", 0)          \* a line of text without any of the above
IndentedTxt(s)       == Tok("txt", s, "", " ", 0)         \* the same behind white space
BlankTok             == Tok("blank", "", "", "", 0)       \* an empty line

\* Tokens of the HTML that parseMystMath emits.
\* <div class="equation-block[ ams-env]"[ id="id"]>\[ of a block that shows (num);
\* num = 0: the block has no number span.
DivOpen(id, cls, num) == Tok("divo", id, cls, "", num)
\* \][<span class="equation-number">(num)</span>]</div>
DivClose              == Tok("divc", "", "", "", 0)
\* <a href="#label" class="cls"[ data-label="label"]>(text)</a>; the text is the
\* number num when shown = "number", else the string shown ("?" or "undefined").
ARef(label, cls, shown, num) == Tok("aref", label, cls, shown, num)
\* \\( ... \\)
InlineMath            == Tok("imath", "", "", "", 0)

(***************************************************************************)
(* Helpers on sequences.                                                   *)
(***************************************************************************)
Min(S) == CHOOSE x \in S : \A y \in S : x <= y

\* The least index >= from of s whose token satisfies P, or 0.
FirstFrom(s, from, P(_)) ==
    LET S == {i \in from..Len(s) : P(s[i])}
    IN  IF S = {} THEN 0 ELSE Min(S)

\* s from index i to its end.
From(s, i) == SubSeq(s, i, Len(s))

RECURSIVE Flatten(_)
Flatten(ss) == IF ss = <<>> THEN <<>> ELSE Head(ss) \o Flatten(Tail(ss))

(***************************************************************************)
(* Articles.  An article is a sequence of blocks <<type, label, inner,     *)
(* ilabel>>, each block one construct of the MyST dialect; Expand gives    *)
(* its text.  inner is what stands inside an equation: "txt" (a formula),  *)
(* the name of an AMS environment, or "eqsplit" (a split environment       *)
(* inside an equation environment); ilabel is the \label inside that       *)
(* environment ("" for none).                                              *)
(***************************************************************************)
Labels == {"a", "b"}

AmsText(env, label) ==
    <<BeginTok(env)>> \o (IF label = "" THEN <<>> ELSE <<LabelTok(label)>>)
        \o <<TxtTok("x"), EndTok(env)>>

InnerText(inner, ilabel) ==
    CASE inner = "txt" -> <<TxtTok("x")>>
      [] inner = "eqsplit" ->
            <<BeginTok("equation")>>
                \o (IF ilabel = "" THEN <<>> ELSE <<LabelTok(ilabel)>>)
                \o <<BeginTok("split"), TxtTok("x"), EndTok("split"), EndTok("equation")>>
      [] OTHER -> AmsText(inner, ilabel)

LabelOpt(label) == IF label = "" THEN <<>> ELSE <<OptTok("label", label)>>

Expand(b) ==
    LET type == b[1]  label == b[2]  inner == InnerText(b[3], b[4]) IN
    CASE type = "bt"    -> <<OpenTok("backtick", 3, "math", "")>> \o LabelOpt(label) \o inner
                               \o <<CloseTok("backtick", 3)>>
      [] type = "ds"    -> <<DDTok>> \o inner \o <<DDTok, SufTok(label)>>
      [] type = "ams"   -> inner
      [] type = "dd"    -> <<DDTok>> \o (IF label = "" THEN <<>> ELSE <<LabelTok(label)>>)
                               \o inner \o <<DDTok>>
      [] type = "cf"    -> <<OpenTok("colon", 3, "math", "")>> \o LabelOpt(label) \o inner
                               \o <<CloseTok("colon", 3)>>
      [] type = "cfoff" -> <<OpenTok("colon", 3, "math", "")>> \o LabelOpt(label)
                               \o <<OptTok("enumerated", "false")>> \o inner
                               \o <<CloseTok("colon", 3)>>
      \* a backtick math directive with further option lines: b[4] says
      \* which, and where they stand
      [] type = "btopt" ->
            <<OpenTok("backtick", 3, "math", "")>>
                \o (CASE b[4] = "class"  -> <<OptTok("class", "x")>> \o LabelOpt(label)
                                                \o <<TxtTok("x")>>
                      [] b[4] = "typst"  -> LabelOpt(label) \o <<OptTok("typst", "root")>>
                                                \o <<TxtTok("x")>>
                      [] b[4] = "behind" -> <<TxtTok("x")>> \o LabelOpt(label)
                                                \o <<OptTok("class", "x")>>
                      [] OTHER           -> <<OptTok("my-key", "v")>> \o LabelOpt(label)
                                                \o <<TxtTok("x")>>)
                \o <<CloseTok("backtick", 3)>>
      [] type = "eqref" -> <<EqRefTok(label)>>
      [] type = "link"  -> <<LinkTok(label)>>
      [] type = "im"    -> <<InlineTok>>
      [] type = "mrole" -> <<MathRoleTok>>
      [] OTHER          -> <<TxtTok("t")>>

Blocks ==
    \* an equation of each syntax, labeled or not
    ({"bt", "dd", "cf"} \X (Labels \cup {""}) \X {"txt"} \X {""})
    \cup ({"ds"} \X Labels \X {"txt"} \X {""})
    \cup {<<"ams", l, env, l>> : l \in Labels \cup {""}, env \in {"equation", "align"}}
    \cup {<<"ams", l, "eqsplit", l>> : l \in {"", "a"}}
    \* an AMS environment inside a math directive or a dollar fence
    \cup ({"bt", "dd"} \X {""} \X {"equation"} \X {"", "a"})
    \cup ({"bt", "ds"} \X {"a"} \X {"equation"} \X {""})
    \* a colon-fenced math directive with ":enumerated: false"
    \cup ({"cfoff"} \X {"", "a"} \X {"txt"} \X {""})
    \* references, to labels and to a name every JavaScript object inherits
    \cup ({"eqref", "link"} \X (Labels \cup {"constructor"}) \X {"txt"} \X {""})
    \cup ({"im", "mrole", "txt"} \X {""} \X {"txt"} \X {""})

BlockSeqs(n) == UNION {[1..k -> Blocks] : k \in 0..n}

RECURSIVE ExpandAll(_)
ExpandAll(bs) == IF bs = <<>> THEN <<>> ELSE Expand(Head(bs)) \o ExpandAll(Tail(bs))

(***************************************************************************)
(* parseMystMath: the registry.                                            *)
(***************************************************************************)
\* equations[label] = { number: eqCounter, id: label }
Register(eqs, label, number) ==
    [l \in DOMAIN eqs \cup {label} |-> IF l = label THEN number ELSE eqs[l]]

\* The names every JavaScript object inherits from Object.prototype: the
\* registry is the object literal {}, so equations[label] finds them.
ObjectPrototypeKeys ==
    {"constructor", "toString", "valueOf", "hasOwnProperty", "__proto__"}

\* const eq = equations[label]; if (eq) <resolved> else <pending>
ResolveRef(eqs, label) ==
    IF label \in DOMAIN eqs
    THEN ARef(label, "eq-ref", "number", eqs[label])
    ELSE IF label \in ObjectPrototypeKeys
         THEN ARef(label, "eq-ref", "undefined", 0)   \* eq.number is undefined
         ELSE ARef(label, "eq-ref eq-pending", "?", 0)

(***************************************************************************)
(* parseMystMath: the passes, in the order of the code.                    *)
(***************************************************************************)
amsEnvs ==
    <<"equation", "equation*", "align", "align*", "gather", "gather*",
      "multline", "multline*", "alignat", "alignat*", "split">>

Passes ==
    <<  <<"btmath", "">>, <<"suffix", "">> >>
    \o [i \in 1..Len(amsEnvs) |-> <<"ams", amsEnvs[i]>>]
    \o << <<"dollar", "">>, <<"eqref", "">>, <<"link", "">>, <<"mrole", "">>,
          <<"inline", "">>, <<"colon", "">>, <<"done", "">> >>

PassKind(p) == Passes[p][1]
PassEnv(p)  == Passes[p][2]

IsKind(t, k) == Kind(t) = k
IsOpt(t)     == Kind(t) = "opt"
IsBlank(t)   == Kind(t) = "blank"
IsLabel(t)   == Kind(t) = "label"
IsDD(t)      == Kind(t) = "dd"

\* line.trim(): the white space in front of an option or text line goes.
TrimLine(t) == IF Kind(t) \in {"opt", "txt"} THEN [t EXCEPT ![4] = ""] ELSE t

\* String.trim() on lines joined by "\n": the empty lines at both ends and
\* the white space in front of the first line go.
RECURSIVE TrimLeft(_)
TrimLeft(s) ==
    IF s = <<>> THEN s
    ELSE IF IsBlank(Head(s)) THEN TrimLeft(Tail(s))
    ELSE <<TrimLine(Head(s))>> \o Tail(s)
RECURSIVE TrimRight(_)
TrimRight(s) ==
    IF s # <<>> /\ IsBlank(s[Len(s)]) THEN TrimRight(SubSeq(s, 1, Len(s) - 1)) ELSE s
Trim(s) == TrimRight(TrimLeft(s))

\* The value of the last ":key: value" line, "" when there is none.
LastOption(ls, key) ==
    LET S == {i \in 1..Len(ls) : IsOpt(ls[i]) /\ ls[i][2] = key}
    IN  IF S = {} THEN "" ELSE ls[CHOOSE i \in S : \A j \in S : j <= i][3]

\* s without its first \label token.
DropFirstLabel(s) ==
    LET k == FirstFrom(s, 1, IsLabel)
    IN  IF k = 0 THEN s ELSE SubSeq(s, 1, k - 1) \o From(s, k + 1)

FirstLabel(s) ==
    LET k == FirstFrom(s, 1, IsLabel) IN IF k = 0 THEN "" ELSE s[k][2]

\* What is left of a fence line when a regular expression consumed three of
\* its fence characters: the fourth character and, of an opening line, its
\* "{name} title".
FenceRest(t) ==
    (IF t[5] > 3 THEN <<TxtTok(t[2])>> ELSE <<>>)
    \o (IF Kind(t) = "open" THEN <<Tok("res", t[3], t[4], "", 0)>> ELSE <<>>)
FenceFront(t) == IF t[5] > 3 THEN <<TxtTok(t[2])>> ELSE <<>>

\* /```\{math\}\s*\n([\s\S]*?)```/ and /:::\{math\}\s*\n([\s\S]*?):::/ :
\* the leftmost opening line of a math directive of the family, then the
\* nearest later text with three fence characters of that family.
IsMathOpen(t, family) ==
    Kind(t) = "open" /\ t[2] = family /\ t[3] = "math" /\ t[4] = ""
HasFence(t, family) == Kind(t) \in {"open", "close"} /\ t[2] = family

DirectiveMatch(s, family) ==
    LET IsOpen(t)  == IsMathOpen(t, family)
        IsFence(t) == HasFence(t, family)
        S == {i \in 1..Len(s) : IsOpen(s[i]) /\ FirstFrom(s, i + 1, IsFence) # 0}
        i == IF S = {} THEN 0 ELSE Min(S)
    IN  [i |-> i, j |-> IF i = 0 THEN 0 ELSE FirstFrom(s, i + 1, IsFence)]

\* /\$\$\s*([\s\S]*?)\$\$\s*\(([^)]+)\)/ : the leftmost "$$", then the nearest
\* later "$$" that a "(label)" follows.
IsSuffixed(s, j) == IsDD(s[j]) /\ j < Len(s) /\ Kind(s[j + 1]) = "suf"

SuffixMatch(s) ==
    LET Closers(i) == {j \in (i + 1)..Len(s) : IsSuffixed(s, j)}
        S == {i \in 1..Len(s) : IsDD(s[i]) /\ Closers(i) # {}}
        i == IF S = {} THEN 0 ELSE Min(S)
    IN  [i |-> i, j |-> IF i = 0 THEN 0 ELSE Min(Closers(i))]

\* /\\begin\{env\}([\s\S]*?)\\end\{env\}/
AmsMatch(s, env) ==
    LET IsEnd(t) == Kind(t) = "end" /\ t[2] = env
        S == {i \in 1..Len(s) : Kind(s[i]) = "begin" /\ s[i][2] = env
                                   /\ FirstFrom(s, i + 1, IsEnd) # 0}
        i == IF S = {} THEN 0 ELSE Min(S)
    IN  [i |-> i, j |-> IF i = 0 THEN 0 ELSE FirstFrom(s, i + 1, IsEnd)]

\* /\$\$\s*([\s\S]*?)\$\$/
DollarMatch(s) ==
    LET S == {i \in 1..Len(s) : IsDD(s[i]) /\ FirstFrom(s, i + 1, IsDD) # 0}
        i == IF S = {} THEN 0 ELSE Min(S)
    IN  [i |-> i, j |-> IF i = 0 THEN 0 ELSE FirstFrom(s, i + 1, IsDD)]

\* A pattern that matches one token: {eq}`label`, [](#label), {math}`x`, $x$.
TokenMatch(s, k) ==
    LET IsK(t) == Kind(t) = k
        i == FirstFrom(s, 1, IsK)
    IN  [i |-> i, j |-> i]

Match(s, p) ==
    CASE PassKind(p) = "btmath" -> DirectiveMatch(s, "backtick")
      [] PassKind(p) = "suffix" -> SuffixMatch(s)
      [] PassKind(p) = "ams"    -> AmsMatch(s, PassEnv(p))
      [] PassKind(p) = "dollar" -> DollarMatch(s)
      [] PassKind(p) = "eqref"  -> TokenMatch(s, "eqref")
      [] PassKind(p) = "link"   -> TokenMatch(s, "link")
      [] PassKind(p) = "mrole"  -> TokenMatch(s, "mrole")
      [] PassKind(p) = "inline" -> TokenMatch(s, "im")
      [] PassKind(p) = "colon"  -> DirectiveMatch(s, "colon")
      [] OTHER                  -> [i |-> 0, j |-> 0]

(***************************************************************************)
(* parseMystMath: the replacer callbacks.  Each gives the HTML that takes  *)
(* the place of the match and the label it registers ("" for none); the    *)
(* number of a registered label is counter + 1.                            *)
(***************************************************************************)
\* lines 70 and 259, /^:(\w+):\s*(.*)$/ : the key of an option line of a math
\* directive or of a figure is made of word characters; a key with a hyphen
\* does not match, and the line counts as a line of the body
HyphenKeys == {"my-key"}
NotOpt(t) == ~(IsOpt(t) /\ t[2] \notin HyphenKeys)

Block(id, cls, number, math) == <<DivOpen(id, cls, number)>> \o math \o <<DivClose>>

\* lines 64-94
BtMathCallback(body, counter) ==
    LET label == LastOption(body, "label")
        mathContent == Trim(SelectSeq(body, NotOpt))
    IN  IF label # ""
        THEN [html |-> Block(label, "", counter + 1, mathContent), reg |-> label]
        ELSE [html |-> Block("", "", 0, mathContent), reg |-> ""]

\* lines 97-104
SuffixCallback(math, label, counter) ==
    [html |-> Block(label, "", counter + 1, Trim(math)), reg |-> label]

\* lines 111-128
AmsCallback(envContent, env, counter) ==
    LET id == FirstLabel(envContent)
    IN  [html |-> Block(id, "ams-env", IF id # "" THEN counter + 1 ELSE 0,
                        <<BeginTok(env)>> \o envContent \o <<EndTok(env)>>),
         reg  |-> id]

\* lines 132-151
DollarCallback(math, counter) ==
    LET label == FirstLabel(math)
        cleanMath == Trim(DropFirstLabel(math))
    IN  IF label # ""
        THEN [html |-> Block(label, "", counter + 1, cleanMath), reg |-> label]
        ELSE [html |-> Block("", "", 0, cleanMath), reg |-> ""]

\* lines 182-216
ColonLabelLine(t) == IsOpt(t) /\ t[2] = "label" /\ t[3] # ""
ColonEnumLine(t)  == IsOpt(t) /\ t[2] = "enumerated" /\ t[3] \in {"true", "false"}
ColonMathLine(t)  == ~ColonLabelLine(t) /\ ~ColonEnumLine(t)

LastWhere(ls, P(_)) ==
    LET S == {i \in 1..Len(ls) : P(ls[i])}
    IN  IF S = {} THEN 0 ELSE CHOOSE i \in S : \A j \in S : j <= i

\* (a callback that numbers every labeled block, whatever :enumerated: says)
ColonCallbackAlwaysNumbered(body, counter) ==
    LET l == LastWhere(body, ColonLabelLine)
        label == IF l = 0 THEN "" ELSE body[l][3]
        mathContent == Trim(SelectSeq(body, ColonMathLine))
    IN  IF label # ""
        THEN [html |-> Block(label, "", counter + 1, mathContent), reg |-> label]
        ELSE [html |-> Block("", "", 0, mathContent), reg |-> ""]

ColonCallback(body, counter) ==
    LET l == LastWhere(body, ColonLabelLine)
        e == LastWhere(body, ColonEnumLine)
        label == IF l = 0 THEN "" ELSE body[l][3]
        enumerated == IF e = 0 THEN TRUE ELSE body[e][3] = "true"
        mathContent == Trim(SelectSeq(body, ColonMathLine))
    IN  IF enumerated /\ label # ""
        THEN [html |-> Block(label, "", counter + 1, mathContent), reg |-> label]
        ELSE [html |-> Block("", "", 0, mathContent), reg |-> ""]

(***************************************************************************)
(* parseMystMath as a state machine: one step per match of the running     *)
(* replace(), one step from each pass to the next.                         *)
(***************************************************************************)
NoEquations == [l \in {} |-> 0]

MathInit ==
    /\ doc \in BlockSeqs(MaxBlocks)
    /\ content = ExpandAll(doc)
    /\ out = <<>>
    /\ rest = content
    /\ pass = 1
    /\ equations = NoEquations
    /\ eqCounter = 0

\* The leftmost match of pass p in s, with what its replacer callback makes
\* of it when the registry is eqs and the counter is counter: the match is
\* s[i..j] (i = 0: no match) and pre \o cb.html \o post takes its place.
Replacement(s, p, eqs, counter) ==
    LET m == Match(s, p)
        k == PassKind(p)
        inside == SubSeq(s, m.i + 1, m.j - 1)
        none == [html |-> <<>>, reg |-> ""]
    IN  IF m.i = 0 THEN [i |-> 0, j |-> 0, cb |-> none, pre |-> <<>>, post |-> <<>>]
        ELSE CASE k = "btmath" ->
                    [i |-> m.i, j |-> m.j, cb |-> BtMathCallback(inside, counter),
                     pre |-> FenceFront(s[m.i]), post |-> FenceRest(s[m.j])]
               [] k = "suffix" ->
                    \* the match ends behind the "(label)" that follows the closing "$$"
                    [i |-> m.i, j |-> m.j + 1,
                     cb |-> SuffixCallback(inside, s[m.j + 1][2], counter),
                     pre |-> <<>>, post |-> <<>>]
               [] k = "ams" ->
                    [i |-> m.i, j |-> m.j, cb |-> AmsCallback(inside, PassEnv(p), counter),
                     pre |-> <<>>, post |-> <<>>]
               [] k = "dollar" ->
                    [i |-> m.i, j |-> m.j, cb |-> DollarCallback(inside, counter),
                     pre |-> <<>>, post |-> <<>>]
               [] k \in {"eqref", "link"} ->
                    [i |-> m.i, j |-> m.j,
                     cb |-> [html |-> <<ResolveRef(eqs, s[m.i][2])>>, reg |-> ""],
                     pre |-> <<>>, post |-> <<>>]
               [] k \in {"mrole", "inline"} ->
                    [i |-> m.i, j |-> m.j, cb |-> [html |-> <<InlineMath>>, reg |-> ""],
                     pre |-> <<>>, post |-> <<>>]
               [] OTHER ->
                    [i |-> m.i, j |-> m.j, cb |-> ColonCallback(inside, counter),
                     pre |-> FenceFront(s[m.i]), post |-> FenceRest(s[m.j])]

\* One call of the replacer callback of the running pass.
Replace ==
    /\ \E r \in {Replacement(rest, pass, equations, eqCounter)} :
        /\ r.i # 0
        /\ out' = out \o SubSeq(rest, 1, r.i - 1) \o r.pre \o r.cb.html \o r.post
        /\ rest' = From(rest, r.j + 1)
        /\ eqCounter' = IF r.cb.reg # "" THEN eqCounter + 1 ELSE eqCounter
        /\ equations' = IF r.cb.reg # "" THEN Register(equations, r.cb.reg, eqCounter + 1)
                                         ELSE equations
    /\ UNCHANGED <<doc, content, pass, dirVars, pipeVars, renderVars, uiVars>>

MatchBtMath ==
    /\ PassKind(pass) = "btmath"
    /\ Replace

MatchSuffix ==
    /\ PassKind(pass) = "suffix"
    /\ Replace

MatchAms ==
    /\ PassKind(pass) = "ams"
    /\ Replace

MatchDollar ==
    /\ PassKind(pass) = "dollar"
    /\ Replace

MatchRef ==
    /\ PassKind(pass) \in {"eqref", "link"}
    /\ Replace

MatchInline ==
    /\ PassKind(pass) \in {"mrole", "inline"}
    /\ Replace

MatchColon ==
    /\ PassKind(pass) = "colon"
    /\ Replace

\* The first pass from p on that finds a match in text; a pass that finds
\* none returns the text as it is.
RECURSIVE PassFrom(_, _)
PassFrom(text, p) ==
    IF PassKind(p) = "done" \/ Match(text, p).i # 0 THEN p ELSE PassFrom(text, p + 1)

\* The running replace() found no further match: its result is the input of
\* the passes that follow.
EndPass ==
    /\ PassKind(pass) # "done"
    /\ Match(rest, pass).i = 0
    /\ rest' = out \o rest
    /\ out' = <<>>
    /\ pass' = PassFrom(out \o rest, pass + 1)
    /\ UNCHANGED <<doc, content, equations, eqCounter, dirVars, pipeVars, renderVars, uiVars>>

MathNext ==
    \/ MatchBtMath
    \/ MatchSuffix
    \/ MatchAms
    \/ MatchDollar
    \/ MatchRef
    \/ MatchInline
    \/ MatchColon
    \/ EndPass

\* renderMarkdownContent is not running.
PipeIdle ==
    /\ source = <<>>
    /\ rendered = <<>>
    /\ stage = "idle"

\* parseMystDirectives is not running.
DirIdle ==
    /\ lines = <<>>
    /\ lineIdx = 1
    /\ result = <<>>
    /\ fixture = <<>>

\* loadPost is not running.
PageIdle ==
    /\ readme = <<>>
    /\ built = FALSE
    /\ blogPost = <<>>
    /\ shownPost = <<>>
    /\ error = ""
    /\ loading = FALSE
    /\ pc = "idle"

\* parseMystFigures is not running.
FigIdle ==
    /\ figContent = <<>>
    /\ targetTable = <<>>
    /\ figOut = <<>>
    /\ figRest = <<>>
    /\ figPc = "idle"

\* The path rewriting is not running.
PathIdle ==
    /\ category = ""
    /\ slug = ""
    /\ htmlContent = <<>>
    /\ processedHtml = <<>>
    /\ replaceIdx = 0

\* No call of renderMarkdownContent is made.
CallIdle ==
    /\ calls = <<>>
    /\ running = 0

RenderIdle == isDev = FALSE /\ PageIdle /\ FigIdle /\ PathIdle /\ CallIdle

\* No table of contents is being built, no loadPost runs, no card is on
\* the page, no worker has a message.
TocIdle ==
    /\ headers = <<>>
    /\ usedIds = <<>>
    /\ toc = <<>>

LoadIdle ==
    /\ route = ""
    /\ loads = <<>>
    /\ relatedPosts = {}

CardIdle ==
    /\ blog = <<>>
    /\ altUrlIndex = 0
    /\ useFallback = FALSE
    /\ shownUrls = <<>>

WorkerIdle ==
    /\ blogs = 0
    /\ batchStart = 0
    /\ fetches = <<>>
    /\ posted = 0
    /\ workerPc = "idle"

UiIdle == TocIdle /\ LoadIdle /\ CardIdle /\ WorkerIdle

Init == MathInit /\ DirIdle /\ PipeIdle /\ RenderIdle /\ UiIdle
Next == MathNext
Spec == Init /\ [][Next]_vars

\* What parseMystMath returns, and whether it has returned.
MathDone == PassKind(pass) = "done"
MathResult == rest

\* parseMystMath as a function: a pass replaces match after match, left to
\* right, and hands its result, the registry and the counter to the next.
RECURSIVE ReplaceAll(_, _, _, _, _)
Replaced(r, done, s, p, eqs, counter) ==
    IF r.i = 0
    THEN [text |-> done \o s, equations |-> eqs, eqCounter |-> counter]
    ELSE ReplaceAll(done \o SubSeq(s, 1, r.i - 1) \o r.pre \o r.cb.html \o r.post,
                    From(s, r.j + 1), p,
                    IF r.cb.reg # "" THEN Register(eqs, r.cb.reg, counter + 1) ELSE eqs,
                    IF r.cb.reg # "" THEN counter + 1 ELSE counter)

ReplaceAll(done, s, p, eqs, counter) ==
    Replaced(Replacement(s, p, eqs, counter), done, s, p, eqs, counter)

RECURSIVE RunPasses(_, _)
RunPasses(x, p) ==
    \* no pattern matches in an empty text
    IF PassKind(p) = "done" \/ x.text = <<>> THEN x.text
    ELSE RunPasses(ReplaceAll(<<>>, x.text, p, x.equations, x.eqCounter), p + 1)

parseMystMath(text) ==
    RunPasses([text |-> text, equations |-> NoEquations, eqCounter |-> 0], 1)

(***************************************************************************)
(* parseMystDirectives.                                                    *)
(***************************************************************************)
\* lines 322-326: /^(:{3,4})\{([\w:-]+)\}\s*(.*)$/ or the same with backticks
IsDirectiveLine(t) == Kind(t) = "open" /\ t[5] \in {3, 4}

\* lines 336-337: closingPattern and openingPattern of the directive opened by open
ClosingPattern(t, open) == Kind(t) = "close" /\ t[2] = open[2] /\ t[5] = open[5]
OpeningPattern(t, open) == Kind(t) = "open" /\ t[2] = open[2] /\ t[5] = open[5]

\* lines 339-352: the index of the closing fence of the directive opened by
\* open, searched from line j on at the given depth; 0 when there is none.
RECURSIVE ScanEnd(_, _, _, _)
ScanEnd(ls, open, j, depth) ==
    IF j > Len(ls) THEN 0
    ELSE IF OpeningPattern(ls[j], open) THEN ScanEnd(ls, open, j + 1, depth + 1)
    ELSE IF ClosingPattern(ls[j], open)
         THEN (IF depth = 1 THEN j ELSE ScanEnd(ls, open, j + 1, depth - 1))
         ELSE ScanEnd(ls, open, j + 1, depth)

\* (a scan that takes the first closing fence, whatever the depth)
EndIndexFirstFence(ls, i) ==
    LET Closing(t) == ClosingPattern(t, ls[i]) IN FirstFrom(ls, i + 1, Closing)

EndIndex(ls, i) == ScanEnd(ls, ls[i], i + 1, 1)

\* (a split that takes option lines wherever they stand)
RECURSIVE SplitOptionsAnywhere(_, _, _, _, _)
SplitOptionsAnywhere(bodyLines, k, inOptions, optionLines, contentLines) ==
    IF k > Len(bodyLines)
    THEN [optionLines |-> optionLines, contentLines |-> contentLines]
    ELSE LET trimmed == TrimLine(bodyLines[k]) IN
         IF IsOpt(trimmed)
         THEN SplitOptionsAnywhere(bodyLines, k + 1, TRUE, Append(optionLines, trimmed),
                                   contentLines)
         ELSE IF IsBlank(trimmed) /\ inOptions
         THEN SplitOptionsAnywhere(bodyLines, k + 1, TRUE, optionLines, contentLines)
         ELSE SplitOptionsAnywhere(bodyLines, k + 1, FALSE, optionLines,
                                   Append(contentLines, bodyLines[k]))

\* lines 357-371: the option lines and the content lines of a captured block
RECURSIVE SplitFrom(_, _, _, _, _)
SplitFrom(bodyLines, k, inOptions, optionLines, contentLines) ==
    IF k > Len(bodyLines)
    THEN [optionLines |-> optionLines, contentLines |-> contentLines]
    ELSE LET trimmed == TrimLine(bodyLines[k]) IN
         IF inOptions /\ IsOpt(trimmed)
         THEN SplitFrom(bodyLines, k + 1, TRUE, Append(optionLines, trimmed), contentLines)
         ELSE IF IsBlank(trimmed) /\ inOptions
         THEN SplitFrom(bodyLines, k + 1, TRUE, optionLines, contentLines)
         ELSE SplitFrom(bodyLines, k + 1, FALSE, optionLines,
                        Append(contentLines, bodyLines[k]))

SplitOptions(bodyLines) == SplitFrom(bodyLines, 1, TRUE, <<>>, <<>>)

\* lines 390-695, generateDirectiveHtml: the wrapper of a directive,
\* <<"hopen", kind of wrapper, name, title shown>>, the attributes that its
\* generator takes from the option lines, the body, and the end of the wrapper.
Admonitions ==
    {"note", "warning", "tip", "important", "caution", "danger", "hint", "seealso"}

WrapperKind(name) ==
    CASE name \in Admonitions -> "admonition"
      [] name = "dropdown"    -> "dropdown"
      [] name = "exercise"    -> "exercise-block"
      [] name \in {"code", "code-block"} -> "code-block-container"
      [] OTHER                -> "generic"          \* <div class="myst-NAME">

\* name.charAt(0).toUpperCase() + name.slice(1)
Capitalized(name) ==
    CASE name = "note" -> "Note"           [] name = "warning" -> "Warning"
      [] name = "tip"  -> "Tip"            [] name = "important" -> "Important"
      [] name = "caution" -> "Caution"     [] name = "danger" -> "Danger"
      [] name = "hint" -> "Hint"           [] name = "seealso" -> "Seealso"
      [] OTHER -> name

\* line 407: titleArg || name.charAt(0).toUpperCase() + name.slice(1)
TitleShown(name, titleArg) ==
    CASE name \in Admonitions -> IF titleArg # "" THEN titleArg ELSE Capitalized(name)
      [] name = "dropdown"    -> IF titleArg # "" THEN titleArg ELSE "Details"
      [] name = "exercise"    -> IF titleArg # "" THEN titleArg ELSE "Exercise"
      [] OTHER                -> ""                 \* the generic wrapper shows no title

\* optionLines.find(o => o.startsWith(':key:')): the value of the first
\* option line of that key, "" when there is none
FirstOption(optionLines, key) ==
    LET S == {k \in 1..Len(optionLines) : optionLines[k][2] = key}
    IN  IF S = {} THEN "" ELSE optionLines[Min(S)][3]

\* line 391: optionLines.some(o => o === ':open:')
IsOpenOption(optionLines) ==
    \E k \in 1..Len(optionLines) : optionLines[k][2] = "open" /\ optionLines[k][3] = ""

\* The attributes that the wrapper takes from the option lines: 'open' of a
\* dropdown (line 396), the class and the id of an exercise (lines 556-576,
\* the class "dropdown" making the exercise a <details>).
AttrsOf(name, optionLines) ==
    CASE name = "dropdown" ->
            IF IsOpenOption(optionLines) THEN <<Tok("attr", "open", "", "", 0)>> ELSE <<>>
      [] name = "exercise" ->
            LET label == FirstOption(optionLines, "label")
                extraClass == FirstOption(optionLines, "class")
            IN  (IF extraClass # "" THEN <<Tok("attr", "class", extraClass, "", 0)>> ELSE <<>>)
                \o (IF label # "" THEN <<Tok("attr", "id", label, "", 0)>> ELSE <<>>)
                \o (IF extraClass = "dropdown" THEN <<Tok("attr", "details", "", "", 0)>>
                                               ELSE <<>>)
      [] OTHER -> <<>>

\* The names that have a case of their own in the switch of lines 392-690.
RecognisedNames ==
    Admonitions
    \cup {"dropdown", "card", "grid", "tab-set", "tab-item", "iframe", "video",
          "video-compare", "exercise", "solution", "code", "code-block", "mermaid",
          "glossary"}
    \cup {"prf:proof", "prf:theorem", "prf:lemma", "prf:definition", "prf:criterion",
          "prf:remark", "prf:conjecture", "prf:corollary", "prf:algorithm",
          "prf:example", "prf:property", "prf:observation", "prf:proposition",
          "prf:assumption"}

\* "```language": the opening line of a Markdown code fence, and its closing line
FenceOpen(language) == Tok("fence", language, "", "", 0)
FenceClose == Tok("fenceend", "", "", "", 0)

\* optionLines.find(o => o.match(/^:linenos:/)) and !linenosOpt.includes('false')
ShowLinenos(optionLines) ==
    \E k \in 1..Len(optionLines) :
        /\ optionLines[k][2] = "linenos"
        /\ \A n \in 1..k - 1 : optionLines[n][2] # "linenos"
        /\ optionLines[k][3] # "false"

\* lines 606-637, the case of code and code-block: the container with its
\* attributes, the file name, the body between the lines of a Markdown code
\* fence of the language, the caption
CodeBlockHtml(name, titleArg, optionLines, bodyContent) ==
    <<Tok("hopen", WrapperKind(name), name, "", 0)>>
        \o (IF ShowLinenos(optionLines)
            THEN <<Tok("attr", "class", "line-numbers", "", 0)>> ELSE <<>>)
        \o (IF FirstOption(optionLines, "label") # ""
            THEN <<Tok("attr", "id", FirstOption(optionLines, "label"), "", 0)>> ELSE <<>>)
        \* parseInt(...) || 1: the values of :lineno-start: of the model are numbers
        \o (IF ShowLinenos(optionLines)
                  /\ FirstOption(optionLines, "lineno-start") \notin {"", "1"}
            THEN <<Tok("attr", "data-start", FirstOption(optionLines, "lineno-start"), "", 0)>>
            ELSE <<>>)
        \o (IF FirstOption(optionLines, "filename") # ""
            THEN <<Tok("filename", FirstOption(optionLines, "filename"), "", "", 0)>>
            ELSE <<>>)
        \o <<FenceOpen(IF titleArg # "" THEN titleArg ELSE "text")>>
        \o bodyContent
        \o <<FenceClose>>
        \o (IF FirstOption(optionLines, "caption") # ""
            THEN <<Tok("caption", FirstOption(optionLines, "caption"), "", "", 0)>>
            ELSE <<>>)
        \o <<Tok("hclose", WrapperKind(name), name, "", 0)>>

\* the wrapper of the other names of the model; lines 692-693 for a name
\* without a case: <div class="myst-NAME">, the body, </div>
WrapperHtml(name, titleArg, optionLines, bodyContent) ==
    <<Tok("hopen", WrapperKind(name), name, TitleShown(name, titleArg), 0)>>
        \o AttrsOf(name, optionLines)
        \o bodyContent
        \o <<Tok("hclose", WrapperKind(name), name, "", 0)>>

\* (a generator that has nothing for a name without a case)
GenerateRecognisedOnly(name, titleArg, optionLines, bodyContent) ==
    IF name \in {"code", "code-block"}
    THEN CodeBlockHtml(name, titleArg, optionLines, bodyContent)
    ELSE IF name \in RecognisedNames
    THEN WrapperHtml(name, titleArg, optionLines, bodyContent)
    ELSE <<>>

generateDirectiveHtml(name, titleArg, optionLines, bodyContent) ==
    IF name \in {"code", "code-block"}
    THEN CodeBlockHtml(name, titleArg, optionLines, bodyContent)
    ELSE WrapperHtml(name, titleArg, optionLines, bodyContent)

\* lines 317-387: the scan from line i on.  A directive line with a closing
\* fence gives the HTML of the directive, whose body went through
\* parseMystDirectives itself; any other line is pushed as it is.
RECURSIVE ParseFrom(_, _)

\* lines 355-376
DirectiveHtml(ls, i, endIndex) ==
    LET split == SplitOptions(SubSeq(ls, i + 1, endIndex - 1))
        bodyContent == Trim(split.contentLines)
        parsedBody == ParseFrom(bodyContent, 1)
    IN  generateDirectiveHtml(ls[i][3], ls[i][4], split.optionLines, parsedBody)

\* line 354: the directive at line i is captured
Captured(ls, i) == IsDirectiveLine(ls[i]) /\ EndIndex(ls, i) > i

ParseFrom(ls, i) ==
    IF i > Len(ls) THEN <<>>
    ELSE IF Captured(ls, i)
         THEN DirectiveHtml(ls, i, EndIndex(ls, i)) \o ParseFrom(ls, EndIndex(ls, i) + 1)
         ELSE <<ls[i]>> \o ParseFrom(ls, i + 1)

parseMystDirectives(text) == ParseFrom(text, 1)

(***************************************************************************)
(* The inputs of parseMystDirectives: the texts of at most MaxLines lines   *)
(* over LineAlphabet, and the texts of the nests of directives of at most  *)
(* MaxDepth levels.  A nest is <<name, pre, kids, post>>: a directive of   *)
(* that name whose body is a line of text (if pre), the nests kids, and a  *)
(* line of text (if post).                                                 *)
(***************************************************************************)
MaxLines == 5
MaxDepth == 3

LineAlphabet ==
    { OpenTok("colon", 3, "note", ""), CloseTok("colon", 3),
      OpenTok("backtick", 3, "exercise", ""), CloseTok("backtick", 3),
      OpenTok("colon", 4, "tip", ""), CloseTok("colon", 4),
      IndentedOpt("class", "x"), TxtTok("t"), BlankTok }

\* The texts start with the opening line of a directive: the scan pushes the
\* lines in front of the first opening line as they are.
Texts(n) ==
    {<<>>} \cup {<<open>> \o t : open \in {l \in LineAlphabet : Kind(l) = "open"},
                                  t \in UNION {[1..k -> LineAlphabet] : k \in 0..(n - 1)}}

NestNames == {"note", "tip"}
Leaves == {<<name, pre, <<>>, FALSE>> : name \in NestNames, pre \in BOOLEAN}

RECURSIVE Nests(_)
Nests(depth) ==
    IF depth <= 1 THEN Leaves
    ELSE LET below == Nests(depth - 1)
             kidss == {<<k>> : k \in below}
                      \cup {<<k, <<"tip", TRUE, <<>>, FALSE>> >> : k \in below}
         IN  Leaves \cup {<<name, pre, kids, post>> :
                            name \in NestNames, pre \in BOOLEAN, kids \in kidss,
                            post \in BOOLEAN}

\* The text of a nest written with the fence <<family, len>>.
RECURSIVE NestText(_, _, _)
NestText(nest, family, len) ==
    LET KidsText[n \in 0..Len(nest[3])] ==
            IF n = 0 THEN <<>> ELSE KidsText[n - 1] \o NestText(nest[3][n], family, len)
    IN  <<OpenTok(family, len, nest[1], "")>>
            \o (IF nest[2] THEN <<TxtTok("before")>> ELSE <<>>)
            \o KidsText[Len(nest[3])]
            \o (IF nest[4] THEN <<TxtTok("after")>> ELSE <<>>)
            \o <<CloseTok(family, len)>>

(***************************************************************************)
(* parseMystDirectives as a state machine: one step per iteration of the   *)
(* loop of the outermost call.                                             *)
(***************************************************************************)
DirInit ==
    /\ \/ lines \in Texts(MaxLines) /\ fixture = <<>>
       \/ \E nest \in Nests(MaxDepth), family \in {"colon", "backtick"} :
            /\ lines = NestText(nest, family, 3)
            /\ fixture = <<nest>>
    /\ lineIdx = 1
    /\ result = <<>>

\* parseMystMath is not running.
MathIdle ==
    /\ doc = <<>>
    /\ content = <<>>
    /\ out = <<>>
    /\ rest = <<>>
    /\ pass = 1
    /\ equations = NoEquations
    /\ eqCounter = 0

\* (a step that renders the directive and stays at its opening line)
DirectiveStepStays ==
    /\ lineIdx <= Len(lines)
    /\ Captured(lines, lineIdx)
    /\ result' = result \o DirectiveHtml(lines, lineIdx, EndIndex(lines, lineIdx))
    /\ lineIdx' = lineIdx
    /\ UNCHANGED <<lines, fixture, mathVars, pipeVars, renderVars, uiVars>>

\* lines 328-380: the line is the opening line of a directive that closes
DirectiveStep ==
    /\ lineIdx <= Len(lines)
    /\ Captured(lines, lineIdx)
    /\ result' = result \o DirectiveHtml(lines, lineIdx, EndIndex(lines, lineIdx))
    /\ lineIdx' = EndIndex(lines, lineIdx) + 1
    /\ UNCHANGED <<lines, fixture, mathVars, pipeVars, renderVars, uiVars>>

\* (a scan that gives up at a line it cannot use)
LiteralStepGivesUp ==
    /\ lineIdx <= Len(lines)
    /\ ~Captured(lines, lineIdx)
    /\ result' = result
    /\ lineIdx' = Len(lines) + 1
    /\ UNCHANGED <<lines, fixture, mathVars, pipeVars, renderVars, uiVars>>

\* lines 383-384: any other line
LiteralStep ==
    /\ lineIdx <= Len(lines)
    /\ ~Captured(lines, lineIdx)
    /\ result' = Append(result, lines[lineIdx])
    /\ lineIdx' = lineIdx + 1
    /\ UNCHANGED <<lines, fixture, mathVars, pipeVars, renderVars, uiVars>>

InitDirectives == DirInit /\ MathIdle /\ PipeIdle /\ RenderIdle /\ UiIdle
NextDirectives == DirectiveStep \/ LiteralStep
SpecDirectives == InitDirectives /\ [][NextDirectives]_vars

\* parseMystDirectives has returned result.join('\n').
DirDone == lineIdx > Len(lines)

(***************************************************************************)
(* parseMystFigures.                                                       *)
(***************************************************************************)
\* "(name)=![alt](src)": a line that defines an image target
TargetTok(name, alt, src) == Tok("target", name, alt, src, 0)
\* line 245: <!-- target:name defined -->
TargetComment(name) == Tok("comment", name, "", "", 0)

\* Tokens of the HTML that parseMystFigures emits.
\* <figure class="myst-figure[ myst-video][ align-ALIGN]"[ id="ID"]>
FigOpen(video, align, id) == Tok("figo", video, align, id, 0)
\* <img src alt [width] loading="lazy" />
ImgTok(src, alt, width) == Tok("img", src, alt, width, 0)
\* <video controls preload="metadata"[ width]><source src type="video/EXT">...</video>
VideoTok(src, ext, width) == Tok("video", src, ext, width, 0)
\* <div class="figure-error">Image target not found</div>
FigError == Tok("figerr", "", "", "", 0)
FigCaptionOpen  == Tok("capo", "", "", "", 0)
FigCaptionClose == Tok("capc", "", "", "", 0)
FigClose == Tok("figc", "", "", "", 0)

\* The URLs and paths of the model, and what the string operations of
\* lines 239-243 and 298-302 make of them.
BlobUrl == "https://github.com/o/r/blob/main/a.png"
RawUrl  == "https://raw.githubusercontent.com/o/r/main/a.png"

\* lines 238-243
ImageSrc(src) == IF src = BlobUrl THEN RawUrl ELSE src

\* line 299: the lower-cased path ends with a video extension
IsVideo(path) == path \in {"videos/clip.mp4", "videos/CLIP.MP4"}
\* line 302: actualImagePath.split('.').pop()
Extension(path) ==
    CASE path = "videos/clip.mp4" -> "mp4"
      [] path = "videos/CLIP.MP4" -> "MP4"
      [] OTHER -> "png"

\* lines 231-247: the table of the targets defined in s, a later definition
\* of a name replacing an earlier one, and s with its definitions replaced.
NoTargets == [n \in {} |-> <<>>]

\* (a table that holds only the targets defined in front of the first figure)
RECURSIVE TargetsBeforeFigure(_, _)
TargetsBeforeFigure(s, targets) ==
    IF s = <<>> \/ (Kind(Head(s)) = "open" /\ Head(s)[3] = "figure") THEN targets
    ELSE IF Kind(Head(s)) = "target"
    THEN TargetsBeforeFigure(Tail(s),
             [n \in DOMAIN targets \cup {Head(s)[2]} |->
                 IF n = Head(s)[2]
                 THEN [alt |-> Head(s)[3], src |-> Head(s)[4]]
                 ELSE targets[n]])
    ELSE TargetsBeforeFigure(Tail(s), targets)

RECURSIVE TargetsOf(_, _)
TargetsOf(s, targets) ==
    IF s = <<>> THEN targets
    ELSE IF Kind(Head(s)) = "target"
    THEN TargetsOf(Tail(s),
             [n \in DOMAIN targets \cup {Head(s)[2]} |->
                 IF n = Head(s)[2]
                 THEN [alt |-> Head(s)[3], src |-> ImageSrc(Head(s)[4])]
                 ELSE targets[n]])
    ELSE TargetsOf(Tail(s), targets)

WithoutTargets(s) ==
    [k \in 1..Len(s) |-> IF Kind(s[k]) = "target" THEN TargetComment(s[k][2]) ELSE s[k]]

\* A "#name" argument and the name it refers to.
TargetRefs == [path \in {"#t", "#missing", "#constructor"} |->
                 CASE path = "#t" -> "t" [] path = "#missing" -> "missing"
                   [] OTHER -> "constructor"]

\* (a figure that uses the reference as it is when the target is not found)
ResolveKeepsReference(imagePath, targets) ==
    IF imagePath \in DOMAIN TargetRefs /\ TargetRefs[imagePath] \in DOMAIN targets
    THEN [path |-> targets[TargetRefs[imagePath]].src,
          alt |-> targets[TargetRefs[imagePath]].alt]
    ELSE [path |-> imagePath, alt |-> ""]

\* lines 270-284: the path and the default alt text of a figure.  The table is
\* a plain object: a name that every object inherits is found in it, with
\* neither src nor alt.
Resolve(imagePath, targets) ==
    IF imagePath \in DOMAIN TargetRefs
    THEN LET targetName == TargetRefs[imagePath] IN
         IF targetName \in DOMAIN targets
         THEN [path |-> targets[targetName].src, alt |-> targets[targetName].alt]
         ELSE IF targetName \in ObjectPrototypeKeys
         THEN [path |-> "", alt |-> ""]
         ELSE [path |-> "", alt |-> "Target not found"]
    ELSE [path |-> imagePath, alt |-> ""]


\* The texts of the model that hold white space.
Phrases == {"Two words"}
OneWord(str) == str # "" /\ str \notin Phrases

\* A line that holds one word, and the word.
OneWordLine(t) ==
    \/ Kind(t) = "txt" /\ OneWord(t[2])
    \/ Kind(t) = "close"
    \/ Kind(t) = "open" /\ t[4] = ""
    \/ Kind(t) = "opt" /\ t[3] = ""
LineWord(t) ==
    CASE Kind(t) = "txt"   -> t[2]
      [] Kind(t) = "close" -> "(fence)"
      [] Kind(t) = "open"  -> "(fence){name}"
      [] OTHER             -> ":key:"

\* line 250, /```\{figure\}\s*(\S+)\s*\n([\s\S]*?)```/ : the opening line of a
\* backtick figure, its argument of one word (the line itself holds it, or the
\* next line that is not empty does and holds nothing else), and the nearest
\* later text with three backticks.  i is the opening line, k the line of the
\* argument, j the line of the closing backticks; i = 0: no match.
IsFigureOpen(t) == Kind(t) = "open" /\ t[2] = "backtick" /\ t[3] = "figure"
IsBacktickFence(t) == HasFence(t, "backtick")

PathLine(s, i) ==
    IF s[i][4] # ""
    THEN (IF OneWord(s[i][4]) THEN i ELSE 0)
    ELSE LET k == FirstFrom(s, i + 1, LAMBDA t : ~IsBlank(t))
         IN  IF k # 0 /\ OneWordLine(s[k]) THEN k ELSE 0

FigureEnd(s, i) ==
    IF PathLine(s, i) = 0 THEN 0 ELSE FirstFrom(s, PathLine(s, i) + 1, IsBacktickFence)

FigureMatch(s) ==
    LET S == {i \in 1..Len(s) : IsFigureOpen(s[i]) /\ FigureEnd(s, i) # 0}
        i == IF S = {} THEN 0 ELSE Min(S)
    IN  IF i = 0 THEN [i |-> 0, k |-> 0, j |-> 0]
        ELSE [i |-> i, k |-> PathLine(s, i), j |-> FigureEnd(s, i)]

\* lines 254-267: the caption is what is left of the body without its option
\* lines, from the first line that is not empty on.
CaptionLines(body) ==
    LET c == SelectSeq(body, NotOpt)
        f == FirstFrom(c, 1, LAMBDA t : ~IsBlank(t))
    IN  IF f = 0 THEN <<>> ELSE From(c, f)

\* caption.replace(/\n/g, ' ')
RECURSIVE JoinText(_)
JoinText(caption) ==
    IF caption = <<>> THEN ""
    ELSE IF Len(caption) = 1 THEN caption[1][2]
    ELSE caption[1][2] \o " " \o JoinText(Tail(caption))

\* lines 251-305
FigureCallback(imagePath, body, targets) ==
    LET caption  == Trim(CaptionLines(body))
        actual   == Resolve(imagePath, targets)
        optAlt   == LastOption(body, "alt")
        alt      == IF optAlt # "" THEN optAlt
                    ELSE IF actual.alt # "" THEN actual.alt
                    ELSE JoinText(caption)
        width    == LastOption(body, "width")
        align    == LastOption(body, "align")
        idAttr   == IF LastOption(body, "label") # "" THEN LastOption(body, "label")
                    ELSE LastOption(body, "name")
        figcaption == IF caption = <<>> THEN <<>>
                      ELSE <<FigCaptionOpen>> \o caption \o <<FigCaptionClose>>
    IN  IF actual.path = ""
        THEN <<FigOpen("", align, idAttr), FigError>> \o figcaption \o <<FigClose>>
        ELSE IF IsVideo(actual.path)
        THEN <<FigOpen("myst-video", align, idAttr),
               VideoTok(actual.path, Extension(actual.path), width)>>
             \o figcaption \o <<FigClose>>
        ELSE <<FigOpen("", align, idAttr), ImgTok(actual.path, alt, width)>>
             \o figcaption \o <<FigClose>>

\* line 250: replace(), match after match
RECURSIVE ReplaceFigures(_, _, _)
FigureReplaced(m, done, s, targets) ==
    IF m.i = 0 THEN done \o s
    ELSE ReplaceFigures(
             done \o SubSeq(s, 1, m.i - 1) \o FenceFront(s[m.i])
                  \o FigureCallback(IF m.k = m.i THEN s[m.i][4] ELSE LineWord(s[m.k]),
                                    SubSeq(s, m.k + 1, m.j - 1), targets)
                  \o FenceRest(s[m.j]),
             From(s, m.j + 1), targets)

ReplaceFigures(done, s, targets) == FigureReplaced(FigureMatch(s), done, s, targets)

parseMystFigures(text) ==
    ReplaceFigures(<<>>, WithoutTargets(text), TargetsOf(text, NoTargets))

(***************************************************************************)
(* renderMarkdownContent, lines 803-805, on a text that is one directive,  *)
(* once written with the colon fence and once with the backtick fence.     *)
(***************************************************************************)
MaxOptions == 2

Families == {"colon", "backtick"}

SourceNames == {"note", "dropdown", "exercise", "math", "figure"}
SourceTitles(name) == IF name = "figure" THEN {"./images/a.png", "#t"} ELSE {"", "T"}
SourceOptions ==
    {OptTok("label", "a"), OptTok("class", "x"), OptTok("enumerated", "false"),
     OptTok("open", "")}
SourceBodies == {<<>>, <<TxtTok("x")>>}

OptionSeqs(n) == UNION {[1..k -> SourceOptions] : k \in 0..n}

Sources ==
    {<<name, title, options, body>> :
        name \in SourceNames, title \in {"", "T", "./images/a.png", "#t"},
        options \in OptionSeqs(MaxOptions), body \in SourceBodies}

\* The text of a source written with the fence of a family; a figure that
\* refers to the target t stands behind the definition of t.
SourceText(src, family) ==
    (IF src[2] = "#t" THEN <<TargetTok("t", "Alt", "./images/t.png")>> ELSE <<>>)
    \o <<OpenTok(family, 3, src[1], src[2])>> \o src[3] \o src[4]
    \o <<CloseTok(family, 3)>>

PipeInit ==
    /\ source \in {src \in Sources : src[2] \in SourceTitles(src[1])}
    /\ rendered = [family \in Families |-> SourceText(source, family)]
    /\ stage = "content"

\* line 803
RenderMath ==
    /\ stage = "content"
    /\ rendered' = [family \in Families |-> parseMystMath(rendered[family])]
    /\ stage' = "parseMystMath"
    /\ UNCHANGED <<source, mathVars, dirVars, renderVars, uiVars>>

\* line 804
RenderFigures ==
    /\ stage = "parseMystMath"
    /\ rendered' = [family \in Families |-> parseMystFigures(rendered[family])]
    /\ stage' = "parseMystFigures"
    /\ UNCHANGED <<source, mathVars, dirVars, renderVars, uiVars>>

\* line 805
RenderDirectives ==
    /\ stage = "parseMystFigures"
    /\ rendered' = [family \in Families |-> parseMystDirectives(rendered[family])]
    /\ stage' = "parseMystDirectives"
    /\ UNCHANGED <<source, mathVars, dirVars, renderVars, uiVars>>

InitPipeline == PipeInit /\ MathIdle /\ DirIdle /\ RenderIdle /\ UiIdle
NextPipeline == RenderMath \/ RenderFigures \/ RenderDirectives
SpecPipeline == InitPipeline /\ [][NextPipeline]_vars

PipeDone == stage = "parseMystDirectives"

(***************************************************************************)
(* What the properties of parseMystMath speak about.                       *)
(***************************************************************************)
\* The label of the equation that block b writes, "" when b is no labeled,
\* enumerated equation.
EqLabelOf(b) ==
    IF b[1] \in {"bt", "ds", "ams", "dd", "cf"}
    THEN (IF b[2] # "" THEN b[2] ELSE b[4])
    ELSE ""

IsLabeledEq(b) == EqLabelOf(b) # ""
IsEquation(b)  == b[1] \in {"bt", "ds", "ams", "dd", "cf", "cfoff"}

\* The labeled, enumerated equations of an article, top to bottom.
LabeledEqs(d) == SelectSeq(d, IsLabeledEq)

UniquelyLabeled(d) ==
    \A i, j \in 1..Len(LabeledEqs(d)) :
        i # j => EqLabelOf(LabeledEqs(d)[i]) # EqLabelOf(LabeledEqs(d)[j])

\* The numbers on the equation blocks of text whose id is label (0: a block
\* without number).
NumbersShown(text, label) ==
    {text[i][5] : i \in {k \in 1..Len(text) : Kind(text[k]) = "divo" /\ text[k][2] = label}}

\* The anchors that the references to label became.
RefsTo(text, label) ==
    {text[i] : i \in {k \in 1..Len(text) : Kind(text[k]) = "aref" /\ text[k][2] = label}}

\* A reference that shows the number of the one block whose id is its label.
ResolvedTo(text, a) ==
    /\ a[3] = "eq-ref"
    /\ a[4] = "number"
    /\ NumbersShown(text, a[2]) = {a[5]}

\* The labels that the equations of the given syntaxes define in d.
LabelsDefinedBy(d, types) ==
    {EqLabelOf(d[i]) : i \in {k \in 1..Len(d) : d[k][1] \in types /\ IsLabeledEq(d[k])}}

\* Every equation of d is written in one syntax: no AMS environment inside a
\* directive, a dollar fence or another environment.
PlainEquations(d) ==
    \A k \in 1..Len(d) :
        IsEquation(d[k]) =>
            IF d[k][1] = "ams" THEN d[k][3] # "eqsplit" ELSE d[k][3] = "txt"

\* A plain dollar block stands in front of a dollar block with a "(label)".
DollarBeforeSuffixed(d) ==
    \E i, j \in 1..Len(d) : i < j /\ d[i][1] = "dd" /\ d[j][1] = "ds"

\* C1: in an article of N uniquely labeled, enumerated equations, each
\* written in one of the five syntaxes (and no plain dollar block in front of
\* a suffixed one), the i-th labeled equation from the top shows the number
\* i, whatever the syntaxes.
C1_NumberedInDocumentOrder ==
    (MathDone /\ UniquelyLabeled(doc) /\ PlainEquations(doc)
        /\ ~DollarBeforeSuffixed(doc)) =>
        \A i \in 1..Len(LabeledEqs(doc)) :
            NumbersShown(MathResult, EqLabelOf(LabeledEqs(doc)[i])) = {i}

\* C2: every reference to a label that a backtick directive, a suffixed
\* dollar block, an AMS environment or a plain dollar block defines becomes a
\* link that is not pending and shows the number on that equation block.
C2_ReferencesResolve ==
    (MathDone /\ UniquelyLabeled(doc)) =>
        \A l \in LabelsDefinedBy(doc, {"bt", "ds", "ams", "dd"}) :
            \A a \in RefsTo(MathResult, l) : ResolvedTo(MathResult, a)

\* C3: every reference to the label of a labeled, enumerated colon-fenced
\* math directive becomes a link that shows the number on that block.
C3_ColonLabelResolves ==
    (MathDone /\ UniquelyLabeled(doc)) =>
        \A l \in LabelsDefinedBy(doc, {"cf"}) :
            \A a \in RefsTo(MathResult, l) : ResolvedTo(MathResult, a)

\* C4: a reference to a label that no equation of the article defines
\* becomes a pending anchor "(?)" that carries the label.
C4_UndefinedLabelPending ==
    MathDone =>
        \A i \in 1..Len(doc) :
            (/\ doc[i][1] \in {"eqref", "link"}
             /\ \A k \in 1..Len(doc) : IsEquation(doc[k]) =>
                    doc[i][2] \notin {doc[k][2], doc[k][4]})
            => RefsTo(MathResult, doc[i][2])
                   = {ARef(doc[i][2], "eq-ref eq-pending", "?", 0)}

\* C5: the counter starts at 0 and grows by one with each registration, the
\* registered numbers are 1, 2, ... without gaps, a block without id shows no
\* number, and a label keeps the number of its first registration.
C5_FirstNumberKept ==
    [][/\ eqCounter' \in {eqCounter, eqCounter + 1}
       /\ \A l \in DOMAIN equations :
            l \in DOMAIN equations' /\ equations'[l] = equations[l]
       /\ \A l \in DOMAIN equations' \ DOMAIN equations :
            eqCounter' = eqCounter + 1 /\ equations'[l] = eqCounter']_vars

\* C6: every equation of the source is converted once: the result holds one
\* equation block per source equation, and no more numbers are used than
\* there are labeled equations.
C6_ConvertedOnce ==
    MathDone =>
        /\ Cardinality({i \in 1..Len(MathResult) : Kind(MathResult[i]) = "divo"})
               = Len(SelectSeq(doc, IsEquation))
        /\ eqCounter <= Len(LabeledEqs(doc))

(***************************************************************************)
(* What the properties of parseMystDirectives speak about.                 *)
(***************************************************************************)
\* The depth behind line j of the directive opened at line k: one, plus the
\* opening lines, minus the closing lines of its fence between k and j.
DepthBehind(ls, k, j) ==
    1 + Cardinality({h \in (k + 1)..j : OpeningPattern(ls[h], ls[k])})
      - Cardinality({h \in (k + 1)..j : ClosingPattern(ls[h], ls[k])})

\* The first closing fence behind which that depth is zero, 0 for none.
MatchingFence(ls, k) ==
    LET S == {j \in (k + 1)..Len(ls) :
                ClosingPattern(ls[j], ls[k]) /\ DepthBehind(ls, k, j) = 0}
    IN  IF S = {} THEN 0 ELSE Min(S)

\* The HTML that a nest of directives stands for.
RECURSIVE NestHtml(_)
NestHtml(nest) ==
    LET KidsHtml[n \in 0..Len(nest[3])] ==
            IF n = 0 THEN <<>> ELSE KidsHtml[n - 1] \o NestHtml(nest[3][n])
    IN  generateDirectiveHtml(nest[1], "", <<>>,
            (IF nest[2] THEN <<TxtTok("before")>> ELSE <<>>)
            \o KidsHtml[Len(nest[3])]
            \o (IF nest[4] THEN <<TxtTok("after")>> ELSE <<>>))

RECURSIVE NestDepth(_)
NestDepth(nest) == IF nest[3] = <<>> THEN 1 ELSE 1 + NestDepth(nest[3][1])

\* C7: a directive closes at the closing fence of its family and length at
\* which the depth returns to zero, and a nest of same-fence directives of two
\* or three levels comes out as the nest of their wrappers: every inner
\* wrapper and every line of a body inside the wrapper of its directive.
C7_ClosesAtMatchingFence ==
    /\ \A k \in 1..Len(lines) :
          IsDirectiveLine(lines[k]) => EndIndex(lines, k) = MatchingFence(lines, k)
    /\ (DirDone /\ fixture # <<>>) => result = NestHtml(fixture[1])

C7_Witness ==
    /\ DirDone
    /\ fixture # <<>>
    /\ NestDepth(fixture[1]) = 3
    /\ fixture[1][1] = fixture[1][3][1][1]
    /\ fixture[1][1] = fixture[1][3][1][3][1][1]
    /\ fixture[1][4] /\ fixture[1][3][1][4]
    /\ result = NestHtml(fixture[1])

\* C8: an opening line without a closing fence at which its depth returns to
\* zero is pushed unchanged and the scan goes on with the next line; a
\* directive that closes is rendered wherever the scan comes to it; a text in
\* which no directive closes comes out line by line.
C8_UnclosedStaysLiteral ==
    /\ [][(lineIdx <= Len(lines) /\ IsDirectiveLine(lines[lineIdx])
             /\ MatchingFence(lines, lineIdx) = 0)
          => (result' = Append(result, lines[lineIdx]) /\ lineIdx' = lineIdx + 1)]_vars
    /\ [][(lineIdx <= Len(lines) /\ IsDirectiveLine(lines[lineIdx])
             /\ MatchingFence(lines, lineIdx) # 0)
          => (/\ Len(result') > Len(result)
              /\ result'[Len(result) + 1]
                   = Tok("hopen", WrapperKind(lines[lineIdx][3]), lines[lineIdx][3],
                         TitleShown(lines[lineIdx][3], lines[lineIdx][4]), 0))]_vars
    /\ []((DirDone /\ \A k \in 1..Len(lines) : MatchingFence(lines, k) = 0)
            => result = lines)

C8_Witness ==
    /\ DirDone
    /\ \E p, q \in 1..Len(result) :
          /\ p < q
          /\ Kind(result[p]) = "open"
          /\ Kind(result[q]) = "hopen"

\* The first line of a block that is neither empty nor shaped like an
\* option, 0 for none.
FirstBodyLine(block) ==
    LET Body(t) == ~IsBlank(t) /\ ~IsOpt(t) IN FirstFrom(block, 1, Body)

\* The option-shaped lines in front of that line, trimmed.
LeadingOptions(block) ==
    LET f == FirstBodyLine(block)
        front == IF f = 0 THEN block ELSE SubSeq(block, 1, f - 1)
        opts == SelectSeq(front, IsOpt)
    IN  [n \in 1..Len(opts) |-> TrimLine(opts[n])]

\* The lines from that line on, as they are.
BodyLines(block) ==
    LET f == FirstBodyLine(block) IN IF f = 0 THEN <<>> ELSE From(block, f)

\* C9: of the block of a directive that the scan captures, the option lines
\* are the option-shaped lines in front of the first line that is neither
\* empty nor option-shaped; every line from that line on, option-shaped or
\* not, is body as it stands.
C9_OptionsOnlyLeading ==
    /\ []((lineIdx <= Len(lines) /\ Captured(lines, lineIdx)) =>
            LET block == SubSeq(lines, lineIdx + 1, EndIndex(lines, lineIdx) - 1) IN
            SplitOptions(block) = [optionLines  |-> LeadingOptions(block),
                                   contentLines |-> BodyLines(block)])
    /\ [][(lineIdx <= Len(lines) /\ Captured(lines, lineIdx))
          => LET block == SubSeq(lines, lineIdx + 1, EndIndex(lines, lineIdx) - 1) IN
             result' = result \o generateDirectiveHtml(
                           lines[lineIdx][3], lines[lineIdx][4], LeadingOptions(block),
                           parseMystDirectives(Trim(BodyLines(block))))]_vars

\* An exercise with an option line, a line of text and a second option line
\* was rendered: the first option is an attribute, the second stands in the body.
C9_Witness ==
    /\ DirDone
    /\ Len(lines) = 5
    /\ lines[1] = OpenTok("backtick", 3, "exercise", "")
    /\ lines[2] = IndentedOpt("class", "x") /\ Kind(lines[3]) = "txt" /\ IsOpt(lines[4])
    /\ lines[5] = CloseTok("backtick", 3)
    /\ result = << Tok("hopen", "exercise-block", "exercise", "Exercise", 0),
                   Tok("attr", "class", "x", "", 0),
                   lines[3], lines[4],
                   Tok("hclose", "exercise-block", "exercise", "", 0) >>

\* C10: a directive written with the colon fence and the same directive
\* written with the backtick fence come out of parseMystMath, parseMystFigures
\* and parseMystDirectives as the same text.
C10_FenceFamilyIndependent ==
    PipeDone => rendered["colon"] = rendered["backtick"]

(***************************************************************************)
(* The frontmatter: src/src/services/local.ts, fetchBlogContent, and the   *)
(* parser matter() that it and renderMarkdownContent call.                 *)
(***************************************************************************)
\* "---"
FmDelim == Tok("fm", "", "", "", 0)
\* "key: value" at the left margin
KeyTok(key, value) == Tok("key", key, value, "", 0)
\* "  - value": a list item under the key above it
ItemTok(value) == Tok("item", value, "", " ", 0)
\* "  key: value": an entry of the mapping under the key above it
SubKeyTok(key, value) == Tok("subkey", key, value, " ", 0)
\* a line that is not YAML (an unclosed "{"), and not of the shape key:
BadYamlTok == Tok("badyaml", "", "", "", 0)

IsFm(t) == Kind(t) = "fm"

\* The value of a key: its scalar, the list items and the mapping entries
\* that the indented lines under it add.
YamlValue(scalar) == [scalar |-> scalar, items |-> <<>>, map |-> <<>>]
YamlFails == [ok |-> FALSE, data |-> <<>>]
NoData == [k \in {} |-> YamlValue("")]

\* The YAML parser behind matter(), on the lines of the block.  A key that
\* occurs twice is an error, in the block and in a mapping under a key; a
\* list item under a key with a scalar continues the scalar; a mapping entry
\* cannot follow a scalar or a list item.
RECURSIVE YamlFrom(_, _, _, _)
YamlFrom(ls, k, data, cur) ==
    IF k > Len(ls) THEN [ok |-> TRUE, data |-> data]
    ELSE CASE Kind(ls[k]) = "key" ->
                IF ls[k][2] \in DOMAIN data THEN YamlFails
                ELSE YamlFrom(ls, k + 1, data @@ (ls[k][2] :> YamlValue(ls[k][3])), ls[k][2])
           [] Kind(ls[k]) = "item" ->
                IF cur = "" \/ data[cur].map # <<>> THEN YamlFails
                ELSE YamlFrom(ls, k + 1,
                         [data EXCEPT ![cur].items = Append(@, ls[k][2])], cur)
           [] Kind(ls[k]) = "subkey" ->
                IF \/ cur = ""
                   \/ data[cur].scalar # ""
                   \/ data[cur].items # <<>>
                   \/ \E n \in 1..Len(data[cur].map) : data[cur].map[n][1] = ls[k][2]
                THEN YamlFails
                ELSE YamlFrom(ls, k + 1,
                         [data EXCEPT ![cur].map = Append(@, <<ls[k][2], ls[k][3]>>)], cur)
           [] Kind(ls[k]) = "blank" -> YamlFrom(ls, k + 1, data, cur)
           [] OTHER -> YamlFails

ParseYaml(block) == YamlFrom(block, 1, NoData, "")

\* matter(text): the data of the block between the "---" line that opens
\* the text and the next one, and the text behind it; threw when the block
\* is not YAML.  A text that does not open with "---" has no data.
matter(text) ==
    IF text = <<>> \/ ~IsFm(text[1])
    THEN [threw |-> FALSE, data |-> NoData, content |-> text]
    ELSE LET close == FirstFrom(text, 2, IsFm)
             block == IF close = 0 THEN Tail(text) ELSE SubSeq(text, 2, close - 1)
             yaml  == ParseYaml(block)
         IN  [threw |-> ~yaml.ok,
              data |-> IF yaml.ok THEN yaml.data ELSE NoData,
              content |-> IF close = 0 THEN <<>> ELSE From(text, close + 1)]

\* local.ts line 204, /^---\n([\s\S]*?)\n---/ : the index of the line that
\* closes the block, 0 when the text has no block of at least one line
FrontmatterMatch(rawContent) ==
    IF rawContent = <<>> \/ ~IsFm(rawContent[1]) THEN 0
    ELSE FirstFrom(rawContent, 3, IsFm)

\* local.ts lines 206-224: the lines of the block without the key lines
\* whose key was seen on an earlier line
RECURSIVE Deduplicate(_, _)
Deduplicate(yamlLines, seenKeys) ==
    IF yamlLines = <<>> THEN <<>>
    ELSE IF Kind(Head(yamlLines)) = "key"
         THEN IF Head(yamlLines)[2] \in seenKeys
              THEN Deduplicate(Tail(yamlLines), seenKeys)
              ELSE <<Head(yamlLines)>>
                   \o Deduplicate(Tail(yamlLines), seenKeys \cup {Head(yamlLines)[2]})
         ELSE <<Head(yamlLines)>> \o Deduplicate(Tail(yamlLines), seenKeys)

\* local.ts lines 203-227
ProcessedContent(rawContent) ==
    LET close == FrontmatterMatch(rawContent) IN
    IF close = 0 THEN rawContent
    ELSE <<FmDelim>> \o Deduplicate(SubSeq(rawContent, 2, close - 1), {})
         \o <<FmDelim>> \o From(rawContent, close + 1)

\* local.ts line 237, processedContent.replace(/^---[\s\S]*?---\n?/, '')
Stripped(processedContent) ==
    IF processedContent = <<>> \/ ~IsFm(processedContent[1]) THEN processedContent
    ELSE LET close == FirstFrom(processedContent, 2, IsFm)
         IN  IF close = 0 THEN processedContent ELSE From(processedContent, close + 1)

\* local.ts lines 202-259: the post that fetchBlogContent returns for a text
fetchBlogContent(rawContent) ==
    LET processedContent == ProcessedContent(rawContent)
        parsed == matter(processedContent)
    IN  [data |-> parsed.data,
         content |-> IF parsed.threw THEN Stripped(processedContent) ELSE parsed.content,
         rawContent |-> processedContent]

(***************************************************************************)
(* The path rewriting of renderMarkdownContent (markdown.ts lines 819-839) *)
(* and rewriteImageUrlsForProduction (lines 848-856).  The value of a src  *)
(* attribute is the sequence of its segments, the pieces between the "/":  *)
(* "./images/a.png" is <<".", "images", "a.png">> and "/blogs/x" is        *)
(* <<"", "blogs", "x">>.                                                   *)
(***************************************************************************)
MaxSrcs == 2

\* lines 821 and 853: 'https://raw.githubusercontent.com/ROCm/rocm-blogs/release'
gitHubBase == <<"https:", "", "raw.githubusercontent.com", "ROCm", "rocm-blogs", "release">>

IsPrefix(p, src) == Len(src) >= Len(p) /\ SubSeq(src, 1, Len(p)) = p

\* lines 822-824, without the "/" that ends it
baseImageUrl(cat, slg, dev) ==
    IF dev THEN <<"", "blogs", cat, slg, "images">>
    ELSE gitHubBase \o <<"blogs", cat, slg, "images">>
\* lines 825-827
baseImageUrlSingular(cat, slg, dev) ==
    IF dev THEN <<"", "blogs", cat, slg, "image">>
    ELSE gitHubBase \o <<"blogs", cat, slg, "image">>
\* lines 828-830
sharedImagesUrl(dev) ==
    IF dev THEN <<"", "blogs", "images">> ELSE gitHubBase \o <<"blogs", "images">>

\* lines 838-839, baseImageUrl.replace('/images/', '/videos/'): the first
\* "/images/" of the string becomes "/videos/"
VideosUrl(base) ==
    LET S == {n \in 2..Len(base) : base[n] = "images"}
    IN  IF S = {} THEN base ELSE [base EXCEPT ![Min(S)] = "videos"]

\* lines 832-839: the pattern of the n-th replace() of the chain, without
\* the "/" that ends it, and what it puts in its place
PathPatterns ==
    << <<".", "images">>, <<"images">>, <<".", "image">>, <<"image">>,
       <<"..", "images">>, <<".", "videos">>, <<"videos">> >>

PathBase(n, cat, slg, dev) ==
    CASE n \in {1, 2} -> baseImageUrl(cat, slg, dev)
      [] n \in {3, 4} -> baseImageUrlSingular(cat, slg, dev)
      [] n = 5        -> sharedImagesUrl(dev)
      [] OTHER        -> VideosUrl(baseImageUrl(cat, slg, dev))

\* the n-th replace() on one src attribute
ReplaceSrc(n, src, cat, slg, dev) ==
    IF IsPrefix(PathPatterns[n], src) /\ Len(src) > Len(PathPatterns[n])
    THEN PathBase(n, cat, slg, dev) \o From(src, Len(PathPatterns[n]) + 1)
    ELSE src

\* lines 831-839: the chain on one src attribute, from the n-th replace() on
RECURSIVE RewriteSrcFrom(_, _, _, _, _)
RewriteSrcFrom(n, src, cat, slg, dev) ==
    IF n > Len(PathPatterns) THEN src
    ELSE RewriteSrcFrom(n + 1, ReplaceSrc(n, src, cat, slg, dev), cat, slg, dev)

RewriteSrc(src, cat, slg, dev) == RewriteSrcFrom(1, src, cat, slg, dev)

\* (a rewriter that does not look at the mode)
RewriteInEveryMode(html, dev) ==
    [k \in 1..Len(html) |->
        IF IsPrefix(<<"", "blogs">>, html[k]) /\ Len(html[k]) > 2
        THEN gitHubBase \o Tail(html[k]) ELSE html[k]]

\* lines 848-856
rewriteImageUrlsForProduction(html, dev) ==
    IF dev THEN html
    ELSE [k \in 1..Len(html) |->
            IF IsPrefix(<<"", "blogs">>, html[k]) /\ Len(html[k]) > 2
            THEN gitHubBase \o Tail(html[k]) ELSE html[k]]

\* The src attributes of the model: the relative spellings, a path of the
\* site, an absolute URL and a relative path that no pattern names.
SrcValues ==
    {p \o <<"a.png">> : p \in {PathPatterns[n] : n \in 1..Len(PathPatterns)}}
    \cup { <<"", "blogs", "ai", "post1", "images", "a.png">>,
           <<"https:", "", "example.com", "images", "a.png">>,
           <<"assets", "images", "a.png">> }

Categories == {"ai", "images"}
Slugs == {"post1", "images"}

PathInit ==
    /\ isDev \in BOOLEAN
    /\ category \in Categories
    /\ slug \in Slugs
    /\ htmlContent \in UNION {[1..k -> SrcValues] : k \in 1..MaxSrcs}
    /\ processedHtml = htmlContent
    /\ replaceIdx = 0

\* lines 832-839: one replace() of the chain
ReplacePath ==
    /\ pc = "idle"
    /\ replaceIdx < Len(PathPatterns)
    /\ processedHtml' = [k \in 1..Len(processedHtml) |->
                            ReplaceSrc(replaceIdx + 1, processedHtml[k], category, slug, isDev)]
    /\ replaceIdx' = replaceIdx + 1
    /\ UNCHANGED <<isDev, category, slug, htmlContent, mathVars, dirVars, pipeVars,
                   pageVars, figVars, callVars, uiVars>>

\* BlogGrid.tsx line 97: loadPost passes what renderMarkdownContent returned
\* to rewriteImageUrlsForProduction
RewriteForProduction ==
    /\ pc = "idle"
    /\ replaceIdx = Len(PathPatterns)
    /\ processedHtml' = rewriteImageUrlsForProduction(processedHtml, isDev)
    /\ replaceIdx' = replaceIdx + 1
    /\ UNCHANGED <<isDev, category, slug, htmlContent, mathVars, dirVars, pipeVars,
                   pageVars, figVars, callVars, uiVars>>

InitPaths == PathInit /\ MathIdle /\ DirIdle /\ PipeIdle /\ PageIdle /\ FigIdle /\ CallIdle
        /\ UiIdle
NextPaths == ReplacePath \/ RewriteForProduction
SpecPaths == InitPaths /\ [][NextPaths]_vars

\* renderMarkdownContent has returned; loadPost has rewritten what it returned.
PathsRendered == replaceIdx = Len(PathPatterns)
PathsDone == replaceIdx = Len(PathPatterns) + 1

(***************************************************************************)
(* The properties of the path rewriting.                                   *)
(***************************************************************************)
\* <prefix>: empty in local mode, the external base in published mode
ModePrefix(dev) == IF dev THEN <<"">> ELSE gitHubBase

BeginsWith(src, p) == IsPrefix(p, src) /\ Len(src) > Len(p)
RestBehind(src, p) == From(src, Len(p) + 1)

IsAbsoluteSrc(src) == src[1] \in {"", "https:"}

\* What a src is to become, in the words of the path rewriter's contract.
RewrittenAs(src, cat, slg, dev) ==
    CASE BeginsWith(src, <<".", "images">>) ->
            ModePrefix(dev) \o <<"blogs", cat, slg, "images">> \o RestBehind(src, <<".", "images">>)
      [] BeginsWith(src, <<"images">>) ->
            ModePrefix(dev) \o <<"blogs", cat, slg, "images">> \o RestBehind(src, <<"images">>)
      [] BeginsWith(src, <<".", "image">>) ->
            ModePrefix(dev) \o <<"blogs", cat, slg, "image">> \o RestBehind(src, <<".", "image">>)
      [] BeginsWith(src, <<"image">>) ->
            ModePrefix(dev) \o <<"blogs", cat, slg, "image">> \o RestBehind(src, <<"image">>)
      [] BeginsWith(src, <<"..", "images">>) ->
            ModePrefix(dev) \o <<"blogs", "images">> \o RestBehind(src, <<"..", "images">>)
      [] BeginsWith(src, <<".", "videos">>) ->
            ModePrefix(dev) \o <<"blogs", cat, slg, "videos">> \o RestBehind(src, <<".", "videos">>)
      [] BeginsWith(src, <<"videos">>) ->
            ModePrefix(dev) \o <<"blogs", cat, slg, "videos">> \o RestBehind(src, <<"videos">>)
      [] OTHER -> src

\* C15: for every category and slug, when the chain of lines 831-839 has run,
\* a src that began with ./images/, images/, ./image/, image/, ../images/,
\* ./videos/ or videos/ is <prefix>/blogs/<category>/<slug>/images/<rest>
\* (or its image/, shared images/ or videos/ counterpart), a src that was
\* absolute is as it was, and no replace() of the chain changes a src that an
\* earlier one has changed.
C15_PathsRewritten ==
    /\ [](PathsRendered =>
            \A k \in 1..Len(htmlContent) :
                /\ processedHtml[k] = RewrittenAs(htmlContent[k], category, slug, isDev)
                /\ IsAbsoluteSrc(htmlContent[k]) => processedHtml[k] = htmlContent[k])
    /\ [][replaceIdx < Len(PathPatterns) =>
            \A k \in 1..Len(htmlContent) :
                processedHtml'[k] # processedHtml[k] => processedHtml[k] = htmlContent[k]]_vars

\* C16: rewriteImageUrlsForProduction returns its input in local mode; in
\* published mode it puts the external base in front of every src that
\* begins with /blogs/, keeps the path, changes no other src, and leaves no
\* src that begins with /blogs/.
C16_ProductionRewrite ==
    [][replaceIdx = Len(PathPatterns) =>
        /\ isDev => processedHtml' = processedHtml
        /\ ~isDev =>
            /\ Len(processedHtml') = Len(processedHtml)
            /\ \A k \in 1..Len(processedHtml) :
                /\ BeginsWith(processedHtml[k], <<"", "blogs">>)
                      => processedHtml'[k] = gitHubBase \o Tail(processedHtml[k])
                /\ ~BeginsWith(processedHtml[k], <<"", "blogs">>)
                      => processedHtml'[k] = processedHtml[k]
                /\ ~BeginsWith(processedHtml'[k], <<"", "blogs">>)]_vars

C16_Witness ==
    /\ PathsDone
    /\ \E dev \in {isDev} : ~dev
    /\ \E k \in 1..Len(htmlContent) :
        /\ htmlContent[k] = <<"", "blogs", "ai", "post1", "images", "a.png">>
        /\ processedHtml[k] = gitHubBase \o <<"blogs", "ai", "post1", "images", "a.png">>

(***************************************************************************)
(* The stages of renderMarkdownContent that are not parseMystMath,         *)
(* parseMystFigures or parseMystDirectives, and the whole of it.           *)
(***************************************************************************)
\* "# text": a Markdown heading
MdHeading(level, text) == Tok("mdh", level, text, "", 0)
\* "![alt](src)": a Markdown image
MdImageTok(src, alt) == Tok("mdimg", src, alt, "", 0)
\* a GFM table
MdTableTok == Tok("mdtable", "", "", "", 0)
\* "{name}`text`": a role
RoleTok(name, text) == Tok("role", name, text, "", 0)

\* Tokens of the HTML: <hN>text</hN>, <p>text</p>, <table>, the wrapped
\* table of lines 815-816, <abbr title="fullText">abbr</abbr>, <tag>text</tag>
HeadingTok(level, text) == Tok("h", level, text, "", 0)
ParagraphTok(text) == Tok("p", text, "", "", 0)
TableTok == Tok("table", "", "", "", 0)
WrappedTableTok == Tok("table", "table-wrapper", "", "", 0)
AbbrTok(abbr, fullText) == Tok("abbr", abbr, fullText, "", 0)
RoleHtml(tag, text) == Tok("rolehtml", tag, text, "", 0)

\* lines 791-801: every whole-word match of an abbreviation of the
\* frontmatter becomes an <abbr>; a line of text of the model holds the
\* word when it is the word.  entries is Object.entries(data.abbreviations).
RECURSIVE ExpandEntries(_, _)
ExpandEntries(text, entries) ==
    IF entries = <<>> THEN text
    ELSE ExpandEntries(
             [k \in 1..Len(text) |->
                 IF Kind(text[k]) = "txt" /\ text[k][2] = Head(entries)[1]
                 THEN AbbrTok(Head(entries)[1], Head(entries)[2])
                 ELSE text[k]],
             Tail(entries))

\* line 791: data.abbreviations && typeof data.abbreviations === 'object'
ExpandAbbreviations(text, data) ==
    IF "abbreviations" \in DOMAIN data
    THEN ExpandEntries(text, data["abbreviations"].map)
    ELSE text

\* lines 700-783, parseMystRoles: the tag that a role name gives
RoleTags ==
    [name \in {"sub", "subscript", "sup", "superscript", "del", "strike", "u", "underline"} |->
        CASE name \in {"sub", "subscript"} -> "sub"
          [] name \in {"sup", "superscript"} -> "sup"
          [] name \in {"del", "strike"} -> "del"
          [] OTHER -> "u"]

\* text.split('+') of the key sequences of the model
Keys(text) ==
    CASE text = "Ctrl+C"       -> <<"Ctrl", "C">>
      [] text = "Ctrl+Shift+P" -> <<"Ctrl", "Shift", "P">>
      [] OTHER                 -> <<text>>

\* " + " between two <kbd> elements
PlusTok == Tok("plus", "", "", "", 0)

\* lines 755-757: keys.map(k => `<kbd>${k.trim()}</kbd>`).join(' + ')
RECURSIVE KeysHtml(_)
KeysHtml(keys) ==
    IF Len(keys) = 1 THEN <<RoleHtml("kbd", keys[1])>>
    ELSE <<RoleHtml("kbd", keys[1]), PlusTok>> \o KeysHtml(Tail(keys))

\* What the replace() calls of lines 719-781, in their order, make of one
\* role: the first pattern that matches the role has it.  {kbd} matches
\* the pattern of line 725, in front of the pattern of line 754 that
\* splits the keys; {keyboard} matches the pattern of line 754 only.
RoleReplaced(t) ==
    IF t[2] = "kbd" THEN <<RoleHtml("kbd", t[3])>>
    ELSE IF t[2] = "keyboard" THEN KeysHtml(Keys(t[3]))
    ELSE IF t[2] \in DOMAIN RoleTags THEN <<RoleHtml(RoleTags[t[2]], t[3])>>
    ELSE <<t>>

RECURSIVE parseMystRoles(_)
parseMystRoles(text) ==
    IF text = <<>> THEN <<>>
    ELSE (IF Kind(Head(text)) = "role" THEN RoleReplaced(Head(text)) ELSE <<Head(text)>>)
             \o parseMystRoles(Tail(text))

\* lines 808-812, the Markdown renderer, token by token: a line of text is a
\* paragraph, a heading a heading, an image an <img>, a table a <table>, an
\* empty line is nothing, and HTML passes as it is.
RemarkToken(t) ==
    CASE Kind(t) = "txt"     -> <<ParagraphTok(t[2])>>
      [] Kind(t) = "mdh"     -> <<HeadingTok(t[2], t[3])>>
      [] Kind(t) = "mdimg"   -> <<ImgTok(t[2], t[3], "")>>
      [] Kind(t) = "mdtable" -> <<TableTok>>
      [] Kind(t) = "blank"   -> <<>>
      [] OTHER               -> <<t>>

RECURSIVE Remark(_)
Remark(text) == IF text = <<>> THEN <<>> ELSE RemarkToken(Head(text)) \o Remark(Tail(text))

\* lines 814-816
WrapTables(html) ==
    [k \in 1..Len(html) |-> IF html[k] = TableTok THEN WrappedTableTok ELSE html[k]]

\* The src attributes that the texts of the model hold, as segments, and the
\* string of a sequence of segments.
SrcSegments(src) ==
    CASE src = "./images/a.png"  -> <<".", "images", "a.png">>
      [] src = "./images/t.png"  -> <<".", "images", "t.png">>
      [] src = "videos/clip.mp4" -> <<"videos", "clip.mp4">>
      [] src = "videos/CLIP.MP4" -> <<"videos", "CLIP.MP4">>
      [] src = "/blogs/ai/post1/images/a.png" ->
                                    <<"", "blogs", "ai", "post1", "images", "a.png">>
      [] OTHER                   -> <<src>>

RECURSIVE JoinPath(_)
JoinPath(segments) ==
    IF Len(segments) = 1 THEN segments[1]
    ELSE segments[1] \o "/" \o JoinPath(Tail(segments))

HasSrc(t) == Kind(t) \in {"img", "video"}

\* lines 831-839 on the HTML
RewritePaths(html, cat, slg, dev) ==
    [k \in 1..Len(html) |->
        IF HasSrc(html[k])
        THEN [html[k] EXCEPT ![2] = JoinPath(RewriteSrc(SrcSegments(@), cat, slg, dev))]
        ELSE html[k]]

\* lines 848-856 on the HTML
RewriteUrlsForProduction(html, dev) ==
    [k \in 1..Len(html) |->
        IF HasSrc(html[k])
        THEN [html[k] EXCEPT ![2] =
                 JoinPath(rewriteImageUrlsForProduction(<<SrcSegments(@)>>, dev)[1])]
        ELSE html[k]]

\* lines 803-806
MystStages(text) ==
    parseMystRoles(parseMystDirectives(parseMystFigures(parseMystMath(text))))

\* lines 786-842: what the call returns, or that it threw.  matter() is
\* called on the raw content with nothing around it that catches.
renderMarkdownContent(rawContent, cat, slg, dev) ==
    LET parsed == matter(rawContent) IN
    IF parsed.threw THEN [threw |-> TRUE, html |-> <<>>]
    ELSE [threw |-> FALSE,
          html |-> RewritePaths(
                       WrapTables(Remark(MystStages(
                           ExpandAbbreviations(parsed.content, parsed.data)))),
                       cat, slg, dev)]

(***************************************************************************)
(* BlogPost.loadPost, src/src/components/BlogGrid.tsx lines 84-141, for a  *)
(* README that fetchBlogContent has loaded.                                *)
(***************************************************************************)
MaxYamlLines == 3

YamlAlphabet ==
    { KeyTok("blog_title", "A"), KeyTok("blog_title", "B"), KeyTok("tags", "x"),
      KeyTok("tags", ""), ItemTok("y"), SubKeyTok("k", "v"), BadYamlTok }

\* a README in Markdown, one that opens with a heading, and one that holds
\* HTML already
Bodies ==
    { <<TxtTok("body")>>,
      <<MdHeading("1", "T"), MdImageTok("./images/a.png", "Alt")>>,
      <<ImgTok("/blogs/ai/post1/images/a.png", "Alt", "")>> }

Readmes ==
    Bodies \cup
    {<<FmDelim>> \o yaml \o <<FmDelim>> \o body :
        yaml \in UNION {[1..k -> YamlAlphabet] : k \in 1..MaxYamlLines}, body \in Bodies}

\* what fetchMystBuiltContent returns when the site holds built HTML
MystHtmlContent == <<HeadingTok("1", "T"), ParagraphTok("built")>>

\* BlogGrid.tsx lines 87-88: content.trim().startsWith('<') || content.includes('</')
StartsWithTag(t) == Kind(t) \in {"img", "video", "divo", "divc", "h", "p", "table"}
HasClosingTag(t) == Kind(t) \in {"video", "divc", "h", "p", "table"}
IsPrerendered(text) ==
    \/ Trim(text) # <<>> /\ StartsWithTag(Trim(text)[1])
    \/ \E k \in 1..Len(text) : HasClosingTag(text[k])

\* BlogGrid.tsx lines 105-111: the first <h1> is taken out
RemoveFirstH1(html) ==
    LET k == FirstFrom(html, 1, LAMBDA t : Kind(t) = "h" /\ t[2] = "1")
    IN  IF k = 0 THEN html ELSE SubSeq(html, 1, k - 1) \o From(html, k + 1)

PageInit ==
    /\ isDev \in BOOLEAN
    /\ readme \in Readmes
    /\ built \in BOOLEAN
    /\ blogPost = <<>>
    /\ shownPost = <<>>
    /\ error = ""
    /\ loading = TRUE
    /\ pc = "fetchBlogContent"
    /\ category = "ai"
    /\ slug = "post1"
    /\ htmlContent = <<>>
    /\ processedHtml = <<>>
    /\ replaceIdx = 0

\* BlogGrid.tsx line 84
FetchContent ==
    /\ pc = "fetchBlogContent"
    /\ blogPost' = fetchBlogContent(readme)
    /\ pc' = "content"
    /\ UNCHANGED <<isDev, readme, built, shownPost, error, loading, mathVars, dirVars,
                   pipeVars, figVars, pathVars, callVars, uiVars>>

\* BlogGrid.tsx lines 113 and 138-140: setPost(blogPost), setLoading(false)
Shown(html) ==
    /\ blogPost' = [blogPost EXCEPT !.content = RemoveFirstH1(html)]
    /\ shownPost' = blogPost'
    /\ loading' = FALSE
    /\ pc' = "done"
    /\ UNCHANGED <<isDev, readme, built, error, mathVars, dirVars, pipeVars, figVars,
                   pathVars, callVars, uiVars>>

\* BlogGrid.tsx lines 100-103: the content is HTML already
ShowPrerendered ==
    /\ pc = "content"
    /\ IsPrerendered(blogPost.content)
    /\ Shown(RewriteUrlsForProduction(blogPost.content, isDev))

\* BlogGrid.tsx lines 92-95: the site holds built HTML of the post
ShowBuilt ==
    /\ pc = "content"
    /\ ~IsPrerendered(blogPost.content)
    /\ built
    /\ Shown(RewriteUrlsForProduction(MystHtmlContent, isDev))

\* BlogGrid.tsx lines 96-98: the raw content is rendered
ShowRendered ==
    /\ pc = "content"
    /\ ~IsPrerendered(blogPost.content)
    /\ ~built
    /\ \E r \in {renderMarkdownContent(blogPost.rawContent, category, slug, isDev)} :
        /\ ~r.threw
        /\ Shown(RewriteUrlsForProduction(r.html, isDev))

\* BlogGrid.tsx lines 135-140: renderMarkdownContent threw, the page shows
\* the error
RenderFails ==
    /\ pc = "content"
    /\ ~IsPrerendered(blogPost.content)
    /\ ~built
    /\ renderMarkdownContent(blogPost.rawContent, category, slug, isDev).threw
    /\ error' = "Failed to load blog post"
    /\ loading' = FALSE
    /\ pc' = "done"
    /\ UNCHANGED <<isDev, readme, built, blogPost, shownPost, mathVars, dirVars, pipeVars,
                   figVars, pathVars, callVars, uiVars>>

InitPage == PageInit /\ MathIdle /\ DirIdle /\ PipeIdle /\ FigIdle /\ CallIdle /\ UiIdle
NextPage == FetchContent \/ ShowPrerendered \/ ShowBuilt \/ ShowRendered \/ RenderFails
SpecPage == InitPage /\ [][NextPage]_vars

PageDone == pc = "done"

(***************************************************************************)
(* The properties of the frontmatter.                                      *)
(***************************************************************************)
\* The README has a frontmatter block that is not YAML.
HasBlock(text) == text # <<>> /\ IsFm(text[1]) /\ FirstFrom(text, 2, IsFm) # 0
BlockOf(text) == SubSeq(text, 2, FirstFrom(text, 2, IsFm) - 1)
BodyOf(text) == From(text, FirstFrom(text, 2, IsFm) + 1)

RECURSIVE WithoutDuplicates(_, _, _)
WithoutDuplicates(block, seen, dropping) ==
    IF block = <<>> THEN <<>>
    ELSE IF Kind(Head(block)) = "key"
         THEN IF Head(block)[2] \in seen
              THEN WithoutDuplicates(Tail(block), seen, TRUE)
              ELSE <<Head(block)>>
                   \o WithoutDuplicates(Tail(block), seen \cup {Head(block)[2]}, FALSE)
         ELSE IF dropping /\ Kind(Head(block)) \in {"item", "subkey"}
              THEN WithoutDuplicates(Tail(block), seen, TRUE)
              ELSE <<Head(block)>> \o WithoutDuplicates(Tail(block), seen, FALSE)

HasDuplicateKey(block) ==
    \E m, n \in 1..Len(block) :
        m < n /\ Kind(block[m]) = "key" /\ Kind(block[n]) = "key" /\ block[m][2] = block[n][2]

\* C13: when a key occurs more than once in the frontmatter block (a block
\* that is YAML but for that), the metadata that fetchBlogContent parses is
\* the metadata of the block without the later occurrences, and the text
\* behind the closing --- is passed on as it is.
C13_FirstOccurrenceWins ==
    (/\ pc # "fetchBlogContent"
     /\ HasBlock(readme)
     /\ HasDuplicateKey(BlockOf(readme))
     /\ ParseYaml(WithoutDuplicates(BlockOf(readme), {}, FALSE)).ok)
        => /\ blogPost.data = ParseYaml(WithoutDuplicates(BlockOf(readme), {}, FALSE)).data
           /\ BodyOf(blogPost.rawContent) = BodyOf(readme)

(***************************************************************************)
(* parseMystFigures as a state machine: the replace() that collects the    *)
(* targets, then one step per match of the replace() of the figures.       *)
(***************************************************************************)
MaxFigBlocks == 3

FigArgs == {"#t", "#missing", "#constructor"}
FigBodies == {<<>>, <<OptTok("alt", "Opt")>>, <<TxtTok("Caption")>>}

\* the pieces of the texts: a line that defines the target t, a backtick
\* figure that refers to a target, a line of text
FigBlocks ==
    { <<TargetTok("t", "Alt", BlobUrl)>>, <<TargetTok("t", "", "./images/t.png")>>,
      <<TargetTok("t", "Alt2", "videos/clip.mp4")>>, <<TxtTok("text")>> }
    \cup {<<OpenTok("backtick", 3, "figure", arg)>> \o body \o <<CloseTok("backtick", 3)>> :
            arg \in FigArgs, body \in FigBodies}

FigTexts == {Flatten(bs) : bs \in UNION {[1..k -> FigBlocks] : k \in 0..MaxFigBlocks}}

FigInit ==
    /\ figContent \in FigTexts
    /\ targetTable = NoTargets
    /\ figOut = <<>>
    /\ figRest = <<>>
    /\ figPc = "targets"

\* lines 231-247
CollectTargets ==
    /\ figPc = "targets"
    /\ targetTable' = TargetsOf(figContent, NoTargets)
    /\ figRest' = WithoutTargets(figContent)
    /\ figPc' = "figures"
    /\ UNCHANGED <<figContent, figOut, isDev, mathVars, dirVars, pipeVars, pageVars,
                   pathVars, callVars, uiVars>>

\* the argument of the figure matched by m in s
FigureArg(s, m) == IF m.k = m.i THEN s[m.i][4] ELSE LineWord(s[m.k])

\* lines 250-306: the callback on the next match
ResolveFigure ==
    /\ figPc = "figures"
    /\ \E m \in {FigureMatch(figRest)} :
        /\ m.i # 0
        /\ figOut' = figOut \o SubSeq(figRest, 1, m.i - 1) \o FenceFront(figRest[m.i])
                        \o FigureCallback(FigureArg(figRest, m),
                                          SubSeq(figRest, m.k + 1, m.j - 1), targetTable)
                        \o FenceRest(figRest[m.j])
        /\ figRest' = From(figRest, m.j + 1)
    /\ UNCHANGED <<figContent, targetTable, figPc, isDev, mathVars, dirVars, pipeVars,
                   pageVars, pathVars, callVars, uiVars>>

\* no further match: parseMystFigures returns
FiguresReturn ==
    /\ figPc = "figures"
    /\ FigureMatch(figRest).i = 0
    /\ figOut' = figOut \o figRest
    /\ figRest' = <<>>
    /\ figPc' = "done"
    /\ UNCHANGED <<figContent, targetTable, isDev, mathVars, dirVars, pipeVars, pageVars,
                   pathVars, callVars, uiVars>>

InitFigures ==
    FigInit /\ isDev = FALSE /\ MathIdle /\ DirIdle /\ PipeIdle /\ PageIdle /\ PathIdle /\ CallIdle
        /\ UiIdle
NextFigures == CollectTargets \/ ResolveFigure \/ FiguresReturn
SpecFigures == InitFigures /\ [][NextFigures]_vars

FiguresDone == figPc = "done"

(***************************************************************************)
(* The properties of parseMystFigures.                                     *)
(***************************************************************************)
\* the definitions of targets in a text, and the names they define
Definitions(text) == {text[k] : k \in {n \in 1..Len(text) : Kind(text[n]) = "target"}}
DefinedNames(text) == {d[2] : d \in Definitions(text)}

\* what the step of ResolveFigure adds to the output
Added == From(figOut', Len(figOut) + 1)
HasKind(html, kinds) == \E k \in 1..Len(html) : Kind(html[k]) \in kinds
FigureOf(html) == SelectSeq(html, LAMBDA t : Kind(t) \in {"figo", "img", "video", "figerr"})

NormalisedSrc(d) == IF d[4] = BlobUrl THEN RawUrl ELSE d[4]

\* C18: when the first figure is resolved the table holds every target that
\* the document defines, before or after the figure; resolving figures does
\* not change the table; and the step that resolves a figure whose argument
\* is #name, name defined, adds an img or a video with the src of a
\* definition of name (the blob URL as a raw URL), the img with the alt of
\* that definition unless an option or, the alt being empty, the caption
\* gives another.
C18_TargetsCollectedFirst ==
    /\ [](figPc = "figures" => DOMAIN targetTable = DefinedNames(figContent))
    /\ [][figPc = "figures" => targetTable' = targetTable]_vars
    /\ [][(/\ figPc = "figures"
           /\ FigureMatch(figRest).i # 0
           /\ FigureArg(figRest, FigureMatch(figRest)) \in DOMAIN TargetRefs
           /\ TargetRefs[FigureArg(figRest, FigureMatch(figRest))] \in DefinedNames(figContent))
          => \E d \in Definitions(figContent) :
                /\ d[2] = TargetRefs[FigureArg(figRest, FigureMatch(figRest))]
                /\ Len(FigureOf(Added)) = 2
                /\ Kind(FigureOf(Added)[2]) \in {"img", "video"}
                /\ FigureOf(Added)[2][2] = NormalisedSrc(d)
                /\ (/\ Kind(FigureOf(Added)[2]) = "img"
                    /\ d[3] # ""
                    /\ ~HasKind(SubSeq(figRest, FigureMatch(figRest).i, FigureMatch(figRest).j),
                                {"opt"}))
                      => FigureOf(Added)[2][3] = d[3]]_vars

C18_Witness ==
    /\ FiguresDone
    /\ figContent = <<OpenTok("backtick", 3, "figure", "#t"), CloseTok("backtick", 3),
                      TargetTok("t", "Alt", BlobUrl)>>
    /\ figOut = <<FigOpen("", "", ""), ImgTok(RawUrl, "Alt", ""), FigClose,
                  TargetComment("t")>>

(***************************************************************************)
(* parseMystDirectives on directives whose name has no case in             *)
(* generateDirectiveHtml.  The text is a line of text (or none), the       *)
(* directive, a line of text (or none); fixture records how it was built:  *)
(* <<front, opening line, option lines, body, behind>>.                    *)
(***************************************************************************)
UnknownNames == {"custom", "margin"}

UnknownOpenings ==
    {OpenTok(family, len, name, title) :
        family \in {"colon", "backtick"}, len \in {3, 4}, name \in UnknownNames,
        title \in {"", "Title"}}

\* The bodies inside the fence of the opening line open: lines of text, a
\* directive that has a case, a directive that has none, an option-shaped
\* line behind a line of text, an opening line that never closes.
UnknownBodies(open) ==
    { <<TxtTok("t")>>,
      <<TxtTok("a"), BlankTok, TxtTok("b")>>,
      <<TxtTok("t"), OptTok("class", "x")>>,
      <<OpenTok(open[2], open[5], "note", ""), TxtTok("in"), CloseTok(open[2], open[5])>>,
      <<TxtTok("t"), OpenTok(open[2], open[5], "custom", ""), TxtTok("in"),
        CloseTok(open[2], open[5])>>,
      <<OpenTok(open[2], 7 - open[5], "tip", ""), TxtTok("in")>> }

UnknownInit ==
    /\ \E front \in {<<>>, <<TxtTok("front")>>}, open \in UnknownOpenings,
          opts \in {<<>>, <<OptTok("class", "x")>>, <<OptTok("class", "x"), BlankTok>>},
          behind \in {<<>>, <<TxtTok("behind")>>} :
         \E body \in UnknownBodies(open) :
            /\ fixture = <<front, open, opts, body, behind>>
            /\ lines = front \o <<open>> \o opts \o body
                           \o <<CloseTok(open[2], open[5])>> \o behind
    /\ lineIdx = 1
    /\ result = <<>>

InitUnknown == UnknownInit /\ MathIdle /\ PipeIdle /\ RenderIdle /\ UiIdle
SpecUnknown == InitUnknown /\ [][NextDirectives]_vars

\* C20: a closed directive whose name has no case in generateDirectiveHtml
\* comes out as the wrapper <div class="myst-NAME"> around its body, the
\* body having gone through parseMystDirectives itself; the lines in front
\* of it and behind it stay where they are.
C20_UnknownDirectiveWrapped ==
    (DirDone /\ Len(fixture) = 5 /\ fixture[2][3] \notin RecognisedNames)
        => result = fixture[1]
                        \o <<Tok("hopen", "generic", fixture[2][3], "", 0)>>
                        \o parseMystDirectives(fixture[4])
                        \o <<Tok("hclose", "generic", fixture[2][3], "", 0)>>
                        \o fixture[5]

\* A directive without a case, with a title, an option line and a directive
\* inside, between two lines of text, has been rendered.
C20_Witness ==
    /\ DirDone
    /\ Len(fixture) = 5
    /\ fixture[2] = OpenTok("colon", 3, "margin", "Title")
    /\ fixture[1] # <<>> /\ fixture[3] # <<>> /\ fixture[5] # <<>>
    /\ Kind(fixture[4][1]) = "open"
    /\ \E k \in 1..Len(result) : result[k] = Tok("hopen", "generic", "margin", "", 0)
    /\ \E k \in 1..Len(result) : result[k] = Tok("hopen", "admonition", "note", "Note", 0)


(***************************************************************************)
(* renderMarkdownContent, src/src/utils/markdown.ts lines 786-842, as the  *)
(* calls that the pages make.  A call runs from its start to its await     *)
(* (line 808) and from there to its return without another call running    *)
(* in between: running is the call that has the thread, 0 when none has.   *)
(* A frame of calls holds the arguments, the position, the locals          *)
(* processed (text) and htmlContent (html), and the locals equations and   *)
(* eqCounter of its parseMystMath as they were when that returned.         *)
(***************************************************************************)
\* "$5 and $10": a line of prose with two dollar signs, which the pattern
\* /\$([^$\n]+)\$/ of line 177 matches as it matches "$x$"
DollarsTok == Tok("im", "prose", "", "", 0)

AbbreviationsBlock == <<FmDelim, KeyTok("abbreviations", ""), SubKeyTok("HTML", "HyperText"), FmDelim>>

\* Articles in plain Markdown: no directive, no math, no role, no figure,
\* no target, no abbreviations.
PlainArticles ==
    { <<MdHeading("1", "T"), TxtTok("body"), MdTableTok, MdImageTok("./images/a.png", "Alt")>>,
      <<FmDelim, KeyTok("blog_title", "A"), FmDelim, TxtTok("body"), BlankTok, TxtTok("more")>>,
      <<TxtTok("body"), DollarsTok>> }

\* Articles with equations and references to them.
MathArticles ==
    { ExpandAll(<< <<"dd", "a", "txt", "">>, <<"eqref", "a", "txt", "">> >>),
      ExpandAll(<< <<"bt", "a", "txt", "">>, <<"bt", "b", "txt", "">>,
                   <<"eqref", "b", "txt", "">> >>),
      ExpandAll(<< <<"txt", "", "txt", "">>, <<"ds", "b", "txt", "">> >>) }

\* The bodies of a code directive: text, "$x$", a role, the word of an
\* abbreviation, a directive (in a fence of the other family).
CodeBodies ==
    { <<TxtTok("code")>>,
      <<TxtTok("code"), BlankTok, TxtTok("more")>>,
      <<InlineTok>>,
      <<RoleTok("sub", "x")>>,
      <<TxtTok("HTML")>> }

CodeArticle(front, open, opts, body) ==
    front \o <<open>> \o opts \o body \o <<CloseTok(open[2], open[5])>>

\* Articles with one code or code-block directive.
CodeArticles ==
    {CodeArticle(<<>>, OpenTok("backtick", 3, "code", "python"), <<>>, body) :
        body \in CodeBodies}
    \cup {CodeArticle(AbbreviationsBlock, OpenTok("backtick", 3, "code-block", ""),
                      <<OptTok("caption", "c")>>, body) :
        body \in {<<TxtTok("code")>>, <<TxtTok("HTML")>>}}
    \cup {CodeArticle(<<>>, OpenTok("colon", 3, "code-block", "markdown"),
                      <<OptTok("linenos", "")>>,
                      <<OpenTok("backtick", 3, "note", ""), TxtTok("in"),
                        CloseTok("backtick", 3)>>)}

\* Articles with a figure and its target, with abbreviations, and with a
\* frontmatter block that is not YAML.
OtherArticles ==
    { <<OpenTok("backtick", 3, "figure", "#t"), CloseTok("backtick", 3),
        TargetTok("t", "Alt", BlobUrl)>>,
      AbbreviationsBlock \o <<TxtTok("HTML"), RoleTok("sup", "2")>>,
      <<RoleTok("kbd", "Ctrl+C"), RoleTok("kbd", "Esc")>>,
      <<TxtTok("body"), RoleTok("keyboard", "Ctrl+Shift+P"), RoleTok("keyboard", "Esc")>>,
      <<FmDelim, BadYamlTok, FmDelim, TxtTok("body")>> }

Articles == PlainArticles \cup MathArticles \cup CodeArticles \cup OtherArticles


Callers == {1, 2}

\* The arguments of the call of a page: the README and where it lies.
Frame(c, rawContent) ==
    [rawContent |-> rawContent,
     category |-> IF c = 1 THEN "ai" ELSE "ml",
     slug |-> IF c = 1 THEN "post1" ELSE "post2",
     pc |-> "matter",
     text |-> <<>>,
     registry |-> [equations |-> NoEquations, eqCounter |-> 0],
     html |-> <<>>]

CallsInit ==
    /\ isDev \in BOOLEAN
    /\ \E articles \in [Callers -> Articles] :
          calls = [c \in Callers |-> Frame(c, articles[c])]
    /\ running = 0

\* parseMystMath with its locals: what RunPasses returns, and the registry
\* and the counter at that point
RECURSIVE MathPasses(_, _)
MathPasses(x, p) ==
    IF PassKind(p) = "done" \/ x.text = <<>> THEN x
    ELSE MathPasses(ReplaceAll(<<>>, x.text, p, x.equations, x.eqCounter), p + 1)

\* (a registry that goes on from what the last call left)
RegistryLeftBehind(left) == left

\* lines 55-56, const equations = {}; let eqCounter = 0: whatever the
\* parseMystMath of another call has left, the locals start empty
FreshRegistry(left) == [equations |-> NoEquations, eqCounter |-> 0]

\* the locals of parseMystMath of the other call
LeftBy(c) == calls[CHOOSE o \in Callers : o # c].registry

\* lines 786-801: the call starts when no call is running; matter() throws,
\* or the abbreviations of the frontmatter are expanded
StartRender ==
    \E c \in Callers :
        /\ running = 0
        /\ calls[c].pc = "matter"
        /\ \E r \in {matter(calls[c].rawContent)} :
            /\ calls' = [calls EXCEPT ![c] =
                            IF r.threw THEN [@ EXCEPT !.pc = "threw"]
                            ELSE [@ EXCEPT !.pc = "parseMystMath",
                                           !.text = ExpandAbbreviations(r.content, r.data)]]
            /\ running' = IF r.threw THEN 0 ELSE c
        /\ UNCHANGED <<isDev, pageVars, figVars, pathVars, mathVars, dirVars, pipeVars, uiVars>>

\* line 803
MathStage ==
    \E c \in Callers :
        /\ running = c
        /\ calls[c].pc = "parseMystMath"
        /\ \E fresh \in {FreshRegistry(LeftBy(c))} :
           \E x \in {MathPasses([text |-> calls[c].text, equations |-> fresh.equations,
                                 eqCounter |-> fresh.eqCounter], 1)} :
              calls' = [calls EXCEPT ![c] =
                           [@ EXCEPT !.pc = "parseMystFigures",
                                     !.text = x.text,
                                     !.registry = [equations |-> x.equations,
                                                   eqCounter |-> x.eqCounter]]]
        /\ UNCHANGED <<running, isDev, pageVars, figVars, pathVars, mathVars, dirVars,
                       pipeVars, uiVars>>

\* line 804
FiguresStage ==
    \E c \in Callers :
        /\ running = c
        /\ calls[c].pc = "parseMystFigures"
        /\ calls' = [calls EXCEPT ![c] =
                        [@ EXCEPT !.pc = "parseMystDirectives",
                                  !.text = parseMystFigures(calls[c].text)]]
        /\ UNCHANGED <<running, isDev, pageVars, figVars, pathVars, mathVars, dirVars,
                       pipeVars, uiVars>>

\* line 805
DirectivesStage ==
    \E c \in Callers :
        /\ running = c
        /\ calls[c].pc = "parseMystDirectives"
        /\ calls' = [calls EXCEPT ![c] =
                        [@ EXCEPT !.pc = "parseMystRoles",
                                  !.text = parseMystDirectives(calls[c].text)]]
        /\ UNCHANGED <<running, isDev, pageVars, figVars, pathVars, mathVars, dirVars,
                       pipeVars, uiVars>>

\* line 806
RolesStage ==
    \E c \in Callers :
        /\ running = c
        /\ calls[c].pc = "parseMystRoles"
        /\ calls' = [calls EXCEPT ![c] =
                        [@ EXCEPT !.pc = "remark",
                                  !.text = parseMystRoles(calls[c].text)]]
        /\ UNCHANGED <<running, isDev, pageVars, figVars, pathVars, mathVars, dirVars,
                       pipeVars, uiVars>>

\* lines 808-812: the Markdown renderer is started and the call waits for
\* it; another call may run
AwaitRemark ==
    \E c \in Callers :
        /\ running = c
        /\ calls[c].pc = "remark"
        /\ calls' = [calls EXCEPT ![c] = [@ EXCEPT !.pc = "await"]]
        /\ running' = 0
        /\ UNCHANGED <<isDev, pageVars, figVars, pathVars, mathVars, dirVars, pipeVars, uiVars>>

\* lines 812-841: the renderer has the HTML of processed; the tables are
\* wrapped, the paths rewritten, and the call returns
ResumeRender ==
    \E c \in Callers :
        /\ running = 0
        /\ calls[c].pc = "await"
        /\ calls' = [calls EXCEPT ![c] =
                        [@ EXCEPT !.pc = "done",
                                  !.html = RewritePaths(WrapTables(Remark(calls[c].text)),
                                                        calls[c].category, calls[c].slug,
                                                        isDev)]]
        /\ UNCHANGED <<running, isDev, pageVars, figVars, pathVars, mathVars, dirVars,
                       pipeVars, uiVars>>

InitCalls ==
    /\ CallsInit
    /\ MathIdle /\ DirIdle /\ PipeIdle /\ PageIdle /\ FigIdle /\ PathIdle /\ UiIdle
NextCalls ==
    \/ StartRender \/ MathStage \/ FiguresStage \/ DirectivesStage \/ RolesStage
    \/ AwaitRemark \/ ResumeRender
SpecCalls == InitCalls /\ [][NextCalls]_vars

\* The stages 2 to 6 of a call have run.
StagesDone(c) == calls[c].pc \in {"remark", "await", "done"}

\* What the call of the frame returns when it is the only call.
Alone(c) ==
    renderMarkdownContent(calls[c].rawContent, calls[c].category, calls[c].slug, isDev)

\* The numbers that the equation blocks of a text show.
BlockNumbers(text) ==
    {text[k][5] : k \in {n \in 1..Len(text) : Kind(text[n]) = "divo" /\ text[n][5] > 0}}

\* C11: a call returns what it returns when it is the only call, whatever
\* the other call has done before it or while it waited, and the numbers of
\* its equations start at 1.
C11_CallsIndependent ==
    \A c \in Callers :
        /\ calls[c].pc = "done" => ~Alone(c).threw /\ calls[c].html = Alone(c).html
        /\ calls[c].pc = "threw" => Alone(c).threw
        /\ StagesDone(c) /\ BlockNumbers(calls[c].text) # {}
              => 1 \in BlockNumbers(calls[c].text)
        /\ calls[c].pc = "done" /\ BlockNumbers(calls[c].html) # {}
              => 1 \in BlockNumbers(calls[c].html)

\* Two calls for different articles with numbered equations wait for the
\* Markdown renderer at the same time.
C11_Witness ==
    /\ calls[1].pc = "await" /\ calls[2].pc = "await"
    /\ calls[1].rawContent # calls[2].rawContent
    /\ calls[1].registry.eqCounter > 0
    /\ calls[2].registry.eqCounter > 0

\* A plain document: lines of text (with or without dollar signs), headings,
\* images, tables, and a frontmatter block without abbreviations.
IsPlain(rawContent) ==
    /\ \A k \in 1..Len(rawContent) :
          \/ Kind(rawContent[k]) \in {"txt", "blank", "mdh", "mdimg", "mdtable", "fm", "key"}
          \/ rawContent[k] = DollarsTok
    /\ ~matter(rawContent).threw
    /\ "abbreviations" \notin DOMAIN matter(rawContent).data

\* C14: on a plain document the stages 2 to 6 leave the text as it is, and
\* the HTML of the call is the HTML that the Markdown renderer gives for the
\* text behind the frontmatter (with the tables wrapped and the paths
\* rewritten, as for every HTML of the renderer).
C14_PlainUnchanged ==
    \A c \in Callers :
        IsPlain(calls[c].rawContent) =>
            /\ StagesDone(c) => calls[c].text = matter(calls[c].rawContent).content
            /\ calls[c].pc = "done" =>
                  calls[c].html =
                      RewritePaths(WrapTables(Remark(matter(calls[c].rawContent).content)),
                                   calls[c].category, calls[c].slug, isDev)

\* The first code or code-block directive of a text that closes, 0 for none.
IsCodeOpen(t) == Kind(t) = "open" /\ t[3] \in {"code", "code-block"}
CodeAt(text) ==
    IF \E k \in 1..Len(text) : IsCodeOpen(text[k]) /\ Captured(text, k)
    THEN Min({k \in 1..Len(text) : IsCodeOpen(text[k]) /\ Captured(text, k)})
    ELSE 0

\* The fence that stands for the directive at line i: the language, the
\* lines of the body behind the option lines as they are written, the end.
FenceOf(text, i) ==
    <<FenceOpen(IF text[i][4] # "" THEN text[i][4] ELSE "text")>>
        \o Trim(SplitOptions(SubSeq(text, i + 1, EndIndex(text, i) - 1)).contentLines)
        \o <<FenceClose>>

Contains(text, part) ==
    \E k \in 0..(Len(text) - Len(part)) : SubSeq(text, k + 1, k + Len(part)) = part

\* C19: when the stages 2 to 6 have run, the text holds, for the code
\* directive of the article, a Markdown code fence of its language around
\* its body as the article has it.
C19_CodeBodyUnaltered ==
    \A c \in Callers :
        \A article \in {matter(calls[c].rawContent).content} :
            (StagesDone(c) /\ CodeAt(article) # 0)
                => Contains(calls[c].text, FenceOf(article, CodeAt(article)))


(***************************************************************************)
(* parseMystMath on articles of at most MaxEqBlocks blocks: equations of   *)
(* each syntax, colon-fenced directives with and without ":enumerated:     *)
(* false", backtick directives with several option lines, references.      *)
(***************************************************************************)
MaxEqBlocks == 3

EqBlocks ==
    ({"cf"} \X {"", "b"} \X {"txt"} \X {""})
    \cup ({"cfoff"} \X {"", "a"} \X {"txt"} \X {""})
    \cup ({"btopt"} \X {"a"} \X {"txt"} \X {"class", "typst", "behind", "hyphen"})
    \cup { <<"bt", "a", "txt", "">>, <<"dd", "", "txt", "">>, <<"ds", "b", "txt", "">>,
           <<"ams", "", "equation", "">>, <<"eqref", "a", "txt", "">>,
           <<"im", "", "txt", "">>, <<"txt", "", "txt", "">> }

EquationsInit ==
    /\ doc \in UNION {[1..k -> EqBlocks] : k \in 0..MaxEqBlocks}
    /\ content = ExpandAll(doc)
    /\ out = <<>>
    /\ rest = content
    /\ pass = 1
    /\ equations = NoEquations
    /\ eqCounter = 0

InitEquations == EquationsInit /\ DirIdle /\ PipeIdle /\ RenderIdle /\ UiIdle
SpecEquations == InitEquations /\ [][MathNext]_vars

(***************************************************************************)
(* What the further properties of parseMystMath speak about.               *)
(***************************************************************************)
IsSuppressed(b) == b[1] = "cfoff"
NotSuppressed(b) == ~IsSuppressed(b)

\* The labels on the colon-fenced directives with ":enumerated: false" that
\* no other equation of the article carries.
SuppressedLabels(d) ==
    {d[k][2] : k \in {n \in 1..Len(d) : IsSuppressed(d[n]) /\ d[n][2] # ""}}
        \ ({EqLabelOf(d[k]) : k \in 1..Len(d)}
               \cup {d[k][2] : k \in {n \in 1..Len(d) : d[n][1] = "btopt"}})

\* The blocks of the text, top to bottom, as <<id, number>>.
RECURSIVE BlocksOf(_)
BlocksOf(text) ==
    IF text = <<>> THEN <<>>
    ELSE (IF Kind(Head(text)) = "divo" THEN <<<<Head(text)[2], Head(text)[5]>>>> ELSE <<>>)
             \o BlocksOf(Tail(text))

NumberedBlocks(text) == SelectSeq(BlocksOf(text), LAMBDA b : b[2] > 0)

\* C21: a colon-fenced math directive with ":enumerated: false" has no
\* number and no id, with a ":label:" too, its label is not in the
\* registry, and the numbered blocks of the article are those of the
\* article without the directive: it takes no number.
C21_EnumeratedFalseSuppresses ==
    MathDone =>
        /\ \A l \in SuppressedLabels(doc) :
              /\ NumbersShown(MathResult, l) = {}
              /\ l \notin DOMAIN equations
        /\ NumberedBlocks(MathResult)
              = NumberedBlocks(parseMystMath(ExpandAll(SelectSeq(doc, NotSuppressed))))
        /\ Len(BlocksOf(MathResult))
              = Len(BlocksOf(parseMystMath(ExpandAll(SelectSeq(doc, NotSuppressed)))))
                    + Len(SelectSeq(doc, IsSuppressed))

\* A labeled directive with ":enumerated: false" stands in front of a
\* labeled, enumerated colon-fenced directive, which shows (1).
C21_Witness ==
    /\ MathDone
    /\ Len(doc) = 2
    /\ doc[1] = <<"cfoff", "a", "txt", "">>
    /\ doc[2] = <<"cf", "b", "txt", "">>
    /\ BlocksOf(MathResult) = <<<<"", 0>>, <<"b", 1>>>>


\* The article holds backtick math directives with option lines, text and
\* references only.
OnlyOptionDirectives(d) == \A k \in 1..Len(d) : d[k][1] \in {"btopt", "txt", "eqref"}

\* C22: of a backtick math directive no option line is left in the math,
\* whatever its key and wherever it stands, and the block has the id of its
\* ":label:" and a number.
C22_OptionLinesExcluded ==
    (MathDone /\ OnlyOptionDirectives(doc)) =>
        /\ \A i \in 1..Len(MathResult) : ~IsOpt(MathResult[i])
        /\ \A k \in 1..Len(doc) :
              doc[k][1] = "btopt" =>
                  \E n \in NumbersShown(MathResult, doc[k][2]) : n > 0

\* The blocks of the text with what stands inside and what stands outside:
\* the text without the blocks, and the depth of blocks never above one.
RECURSIVE OutsideBlocks(_, _)
OutsideBlocks(text, depth) ==
    IF text = <<>> THEN <<>>
    ELSE IF Kind(Head(text)) = "divo" THEN OutsideBlocks(Tail(text), depth + 1)
    ELSE IF Kind(Head(text)) = "divc" THEN OutsideBlocks(Tail(text), depth - 1)
    ELSE (IF depth = 0 THEN <<Head(text)>> ELSE <<>>) \o OutsideBlocks(Tail(text), depth)

\* The article is a plain dollar block, text, a dollar block with "(b)".
DollarTextSuffixed(d) ==
    /\ Len(d) = 3
    /\ d[1] = <<"dd", "", "txt", "">>
    /\ d[2] = <<"txt", "", "txt", "">>
    /\ d[3] = <<"ds", "b", "txt", "">>

\* C24: a plain dollar block, a line of text and a dollar block with a
\* "(label)" come out as a block without number, the line of text outside
\* of the blocks, and the block of the label.
C24_SuffixLabelsItsBlockOnly ==
    (MathDone /\ DollarTextSuffixed(doc)) =>
        /\ BlocksOf(MathResult) = <<<<"", 0>>, <<"b", 1>>>>
        /\ OutsideBlocks(MathResult, 0) = <<TxtTok("t")>>


\* The keyboard roles of a text, in their order.
KeyboardRoles(text) ==
    SelectSeq(text, LAMBDA t : Kind(t) = "role" /\ t[2] \in {"kbd", "keyboard"})

\* The <kbd> elements of a text, in their order.
KbdElements(text) ==
    SelectSeq(text, LAMBDA t : Kind(t) = "rolehtml" /\ t[2] = "kbd")

RECURSIVE KeysOfAll(_)
KeysOfAll(roles) ==
    IF roles = <<>> THEN <<>>
    ELSE [k \in 1..Len(Keys(Head(roles)[3])) |-> RoleHtml("kbd", Keys(Head(roles)[3])[k])]
             \o KeysOfAll(Tail(roles))

\* C23: when the stages 2 to 6 have run, the text holds one <kbd> element
\* for each key of each keyboard role of the article, {kbd} or {keyboard}.
C23_KeysSplit ==
    \A c \in Callers :
        StagesDone(c) =>
            KbdElements(calls[c].text)
                = KeysOfAll(KeyboardRoles(matter(calls[c].rawContent).content))


(***************************************************************************)
(* The loop of parseMystDirectives run to its end: the while loop of lines *)
(* 318-385 is synchronous code, every iteration that can be taken is       *)
(* taken.                                                                  *)
(***************************************************************************)
MaxScanLines == 3

\* A Markdown code fence of three backticks: "```python", a line of code,
\* "```"; and the directives around one, <<opening line, lines in front of
\* the fence, lines behind it>>.
CodeFence == <<FenceOpen("python"), TxtTok("code"), CloseTok("backtick", 3)>>

AroundCodeFence ==
    {<<open, front, behind>> :
        open \in {OpenTok("backtick", 3, "note", ""), OpenTok("backtick", 4, "note", ""),
                  OpenTok("colon", 3, "note", ""), OpenTok("backtick", 3, "custom", "")},
        front \in {<<>>, <<TxtTok("front")>>},
        behind \in {<<>>, <<TxtTok("behind")>>}}

\* A directive inside a directive, each closed by the closing line of its
\* own fence.
NestedTexts ==
    {<<outer, inner, CloseTok(inner[2], inner[5]), CloseTok(outer[2], outer[5])>> :
        outer, inner \in {l \in LineAlphabet : Kind(l) = "open"}}

ScanInit ==
    /\ \/ lines \in Texts(MaxScanLines) /\ fixture = <<>>
       \/ lines \in NestedTexts /\ fixture = <<>>
       \/ \E f \in AroundCodeFence :
            /\ fixture = f
            /\ lines = <<f[1]>> \o f[2] \o CodeFence \o f[3]
                           \o <<CloseTok(f[1][2], f[1][5])>>
    /\ lineIdx = 1
    /\ result = <<>>

InitScan == ScanInit /\ MathIdle /\ PipeIdle /\ RenderIdle /\ UiIdle
SpecScan == InitScan /\ [][NextDirectives]_vars /\ WF_vars(NextDirectives)

\* line 373: the body that the recursive call for the directive at line i gets
BodyContent(ls, i) ==
    Trim(SplitOptions(SubSeq(ls, i + 1, EndIndex(ls, i) - 1)).contentLines)

\* How deep the calls of parseMystDirectives go for the lines from i on: 0
\* when no directive is captured, else one more than for the bodies.
RECURSIVE CallDepth(_, _)
CallDepth(ls, i) ==
    IF i > Len(ls) THEN 0
    ELSE IF Captured(ls, i)
         THEN IF 1 + CallDepth(BodyContent(ls, i), 1) > CallDepth(ls, EndIndex(ls, i) + 1)
              THEN 1 + CallDepth(BodyContent(ls, i), 1)
              ELSE CallDepth(ls, EndIndex(ls, i) + 1)
         ELSE CallDepth(ls, i + 1)

\* C25: every iteration of the scan moves the line index forward, by one
\* line or behind the closing fence, and never beyond the line behind the
\* last; the body handed to the recursive call has fewer lines than the
\* text of the caller; the calls go no deeper than the text has lines; and
\* the scan comes to its end.
C25_ScanTerminates ==
    /\ [][/\ lineIdx' > lineIdx
          /\ lineIdx' <= Len(lines) + 1
          /\ Captured(lines, lineIdx) =>
                /\ lineIdx' = EndIndex(lines, lineIdx) + 1
                /\ Len(BodyContent(lines, lineIdx)) < Len(lines)
          /\ ~Captured(lines, lineIdx) => lineIdx' = lineIdx + 1]_vars
    /\ [](CallDepth(lines, 1) <= Len(lines))
    /\ <>DirDone

\* The scan has ended on a text with a directive inside a directive.
C25_Witness ==
    /\ DirDone
    /\ CallDepth(lines, 1) = 2
    /\ lines \in NestedTexts


\* C26: a directive of three backticks around a Markdown code fence of three
\* backticks is one unit: its body is the lines in front of the fence, the
\* fence and the lines behind it, and nothing stands behind the directive.
C26_CodeFenceInsideDirective ==
    (DirDone /\ fixture # <<>> /\ fixture[1][2] = "backtick" /\ fixture[1][5] = 3)
        => result = generateDirectiveHtml(fixture[1][3], "", <<>>,
                                          fixture[2] \o CodeFence \o fixture[3])

\* The same for a directive of another fence than the three backticks.
OtherFenceAroundCodeFence ==
    (DirDone /\ fixture # <<>> /\ ~(fixture[1][2] = "backtick" /\ fixture[1][5] = 3))
        => result = generateDirectiveHtml(fixture[1][3], "", <<>>,
                                          fixture[2] \o CodeFence \o fixture[3])

\* ---------------------------------------------------------------------
\* BlogPost: the effect that gives the headings their ids and builds the
\* table of contents (BlogGrid.tsx, 148-178).
\*
\* A heading text is a sequence of parts that whitespace separates: a
\* word <<"w", s>>, a number <<"n", k>>, or a run of special characters
\* <<"x", s>>.  A slug is the sequence of the parts that hyphens join.
\* A header is <<text, id>>, id being <<>> when the element has none.
\* ---------------------------------------------------------------------
MaxHeaders == 3

Word(s) == <<"w", s>>
Num(k) == <<"n", k>>
Special(s) == <<"x", s>>

\* toLowerCase, on the words of the alphabet.
LowerCase(part) ==
    IF part = Word("Step") THEN Word("step") ELSE part

\* text.toLowerCase().replace(/[^\w\s-]/g, '').replace(/\s+/g, '-')
\*     .replace(/-+/g, '-').trim()
RECURSIVE SlugOf(_)
SlugOf(text) ==
    IF text = <<>> THEN <<>>
    ELSE IF Head(text)[1] = "x" THEN SlugOf(Tail(text))
    ELSE <<LowerCase(Head(text))>> \o SlugOf(Tail(text))

\* ... || `section-${index}`
SlugOrSection(text, index) ==
    IF SlugOf(text) = <<>> THEN <<Word("section"), Num(index)>> ELSE SlugOf(text)

\* usedIds.get(slug) || 0
UsedCount(used, key) == IF key \in DOMAIN used THEN used[key] ELSE 0

\* if (count > 0) slug = `${slug}-${count + 1}`
IdOf(text, index, used) ==
    IF UsedCount(used, SlugOrSection(text, index)) > 0
    THEN SlugOrSection(text, index)
             \o <<Num(UsedCount(used, SlugOrSection(text, index)) + 1)>>
    ELSE SlugOrSection(text, index)

\* slug.replace(/-\d+$/, '')
StripNumber(id) ==
    IF Len(id) > 1 /\ id[Len(id)][1] = "n" THEN SubSeq(id, 1, Len(id) - 1) ELSE id

\* usedIds.set(slug.replace(/-\d+$/, ''), count + 1)
UsedSet(used, key, count) ==
    [k \in DOMAIN used \cup {key} |-> IF k = key THEN count ELSE used[k]]

UsedAfter(text, index, used) ==
    UsedSet(used, StripNumber(IdOf(text, index, used)),
            UsedCount(used, SlugOrSection(text, index)) + 1)

\* headers.map((header, index) => ...): the headers with their ids, and
\* the map usedIds, after the callback has run on hs[index + 1 ..].
RECURSIVE MapHeaders(_, _, _, _)
MapHeaders(hs, index, used, done) ==
    IF index >= Len(hs) THEN <<done, used>>
    ELSE IF hs[index + 1][2] # <<>>
    THEN MapHeaders(hs, index + 1, used, Append(done, hs[index + 1]))
    ELSE MapHeaders(hs, index + 1, UsedAfter(hs[index + 1][1], index, used),
                    Append(done, <<hs[index + 1][1], IdOf(hs[index + 1][1], index, used)>>))

\* The item of a header: {id, text}.
TocItem(header) == <<header[2], header[1]>>

HeadingTexts ==
    { <<Word("Step")>>, <<Word("Step"), Num(2)>>, <<Special("!")>>,
      <<Word("step"), Special("!")>> }

\* The headings of a post: without an id, or with one that the Markdown
\* already gave.
HeaderElements ==
    {<<t, <<>>>> : t \in HeadingTexts} \cup {<<<<Word("Step")>>, <<Word("given")>>>>}

RECURSIVE HeaderLists(_)
HeaderLists(n) ==
    IF n = 0 THEN {<<>>}
    ELSE {<<>>} \cup {<<h>> \o l : h \in HeaderElements, l \in HeaderLists(n - 1)}

TocInit ==
    /\ headers \in HeaderLists(MaxHeaders) \ {<<>>}
    /\ usedIds = <<>>
    /\ toc = <<>>

\* The effect: every header gets its id, and setToc(tocItems).
TocEffect ==
    /\ headers # <<>>
    /\ toc = <<>>
    /\ \E r \in {MapHeaders(headers, 0, <<>>, <<>>)} :
        /\ headers' = r[1]
        /\ usedIds' = r[2]
        /\ toc' = [i \in 1..Len(r[1]) |-> TocItem(r[1][i])]
    /\ UNCHANGED <<mathVars, dirVars, pipeVars, renderVars, loadVars, cardVars, workerVars>>

InitToc ==
    /\ TocInit
    /\ MathIdle /\ DirIdle /\ PipeIdle /\ RenderIdle
    /\ LoadIdle /\ CardIdle /\ WorkerIdle

SpecToc == InitToc /\ [][TocEffect]_vars

\* C27: when the effect has built the table of contents, the ids of the
\* headings that had no id are pairwise distinct, whatever the heading
\* texts are (repeated texts, and texts that end in a number, included).
C27_TocIdsDistinct ==
    [][TocEffect =>
        \A i, j \in 1..Len(headers) :
            (i # j /\ headers[i][2] = <<>> /\ headers[j][2] = <<>>)
                => headers'[i][2] # headers'[j][2]]_vars

\* The ids are distinct when no heading text ends in a number.
EndsInNumber(text) == SlugOf(text) # <<>> /\ SlugOf(text)[Len(SlugOf(text))][1] = "n"

TocIdsDistinctWithoutNumbers ==
    [][(TocEffect /\ \A i \in 1..Len(headers) : ~EndsInNumber(headers[i][1])) =>
        \A i, j \in 1..Len(headers) :
            (i # j /\ headers[i][2] = <<>> /\ headers[j][2] = <<>>)
                => headers'[i][2] # headers'[j][2]]_vars

\* ---------------------------------------------------------------------
\* BlogPost: the effect of [category, slug] and the calls of loadPost it
\* starts (BlogGrid.tsx, 77-145).  The effect has no cleanup, and
\* loadPost does not look at the props when an await returns: every call
\* runs to its end.  A call is [post, at, message]: the post of the props
\* it was started with, the await it waits at ("fetchBlogContent",
\* "fetchBlogList") or how it ended ("done", "failed"), and the message
\* of the error it caught.  The awaits of lines 84-98 are one await here;
\* the order that the similarity gives the related posts is left out.
\* ---------------------------------------------------------------------
MaxLoads == 2

Posts == {"A", "B"}
AllPosts == {"A", "B", "C"}

\* The messages of the errors that the fetches throw: one without a
\* message, and the one of local.ts line 196.
ErrorMessages == {"", "Failed to load blog: 404"}

\* line 136: err.message || 'Failed to load blog post'
ErrorShown(m) == IF m = "" THEN "Failed to load blog post" ELSE m

\* What setPost is given for a post.
PostOf(p) == [slug |-> p]

\* lines 120-133: allPosts.filter(p => p.slug !== slug)
RelatedOf(p) == AllPosts \ {p}

LoadCall(p) == [post |-> p, at |-> "fetchBlogContent", message |-> ""]

LoadsInit ==
    /\ route \in Posts
    /\ loads = <<>>
    /\ relatedPosts = {}
    /\ shownPost = <<>>
    /\ error = ""
    /\ loading = TRUE

\* The effect has run for the props as they are.
EffectRan == loads # <<>> /\ loads[Len(loads)].post = route

\* lines 78-82 and 143: the effect calls loadPost, which runs to its first
\* await.
StartLoad ==
    /\ route # ""
    /\ ~EffectRan
    /\ Len(loads) < MaxLoads
    /\ loading' = TRUE
    /\ error' = ""
    /\ loads' = Append(loads, LoadCall(route))
    /\ UNCHANGED <<route, relatedPosts, shownPost>>
    /\ UNCHANGED <<isDev, readme, built, blogPost, pc, figVars, pathVars, callVars,
                   mathVars, dirVars, pipeVars, tocVars, cardVars, workerVars>>

\* The router gives the component another post.
Navigate ==
    /\ EffectRan
    /\ Len(loads) < MaxLoads
    /\ \E p \in Posts \ {route} : route' = p
    /\ UNCHANGED <<loads, relatedPosts, shownPost, error, loading>>
    /\ UNCHANGED <<isDev, readme, built, blogPost, pc, figVars, pathVars, callVars,
                   mathVars, dirVars, pipeVars, tocVars, cardVars, workerVars>>

\* lines 84-113: the content of call i arrives; setPost(blogPost).
ContentArrives(i) ==
    /\ loads[i].at = "fetchBlogContent"
    /\ shownPost' = PostOf(loads[i].post)
    /\ loads' = [loads EXCEPT ![i].at = "fetchBlogList"]
    /\ UNCHANGED <<route, relatedPosts, error, loading>>
    /\ UNCHANGED <<isDev, readme, built, blogPost, pc, figVars, pathVars, callVars,
                   mathVars, dirVars, pipeVars, tocVars, cardVars, workerVars>>

\* lines 116-133 and 137-139: the list arrives; setRelatedPosts, and
\* setLoading(false) in the finally.
ListArrives(i) ==
    /\ loads[i].at = "fetchBlogList"
    /\ relatedPosts' = RelatedOf(loads[i].post)
    /\ loading' = FALSE
    /\ loads' = [loads EXCEPT ![i].at = "done"]
    /\ UNCHANGED <<route, shownPost, error>>
    /\ UNCHANGED <<isDev, readme, built, blogPost, pc, figVars, pathVars, callVars,
                   mathVars, dirVars, pipeVars, tocVars, cardVars, workerVars>>

\* lines 134-139: an await of call i throws; setError, and
\* setLoading(false) in the finally.
LoadFails(i) ==
    /\ loads[i].at \in {"fetchBlogContent", "fetchBlogList"}
    /\ \E m \in ErrorMessages :
        /\ error' = ErrorShown(m)
        /\ loads' = [loads EXCEPT ![i].at = "failed", ![i].message = m]
    /\ loading' = FALSE
    /\ UNCHANGED <<route, relatedPosts, shownPost>>
    /\ UNCHANGED <<isDev, readme, built, blogPost, pc, figVars, pathVars, callVars,
                   mathVars, dirVars, pipeVars, tocVars, cardVars, workerVars>>

InitLoads ==
    /\ LoadsInit
    /\ readme = <<>> /\ built = FALSE /\ blogPost = <<>> /\ pc = "idle"
    /\ isDev = FALSE /\ FigIdle /\ PathIdle /\ CallIdle
    /\ MathIdle /\ DirIdle /\ PipeIdle
    /\ TocIdle /\ CardIdle /\ WorkerIdle

NextLoads ==
    \/ StartLoad
    \/ Navigate
    \/ \E i \in 1..Len(loads) : ContentArrives(i)
    \/ \E i \in 1..Len(loads) : ListArrives(i)
    \/ \E i \in 1..Len(loads) : LoadFails(i)

SpecLoads == InitLoads /\ [][NextLoads]_vars

Settled(i) == loads[i].at \in {"done", "failed"}

\* What the component shows when call i alone has run.
ResultOf(i) ==
    /\ loading = FALSE
    /\ IF loads[i].at = "done"
       THEN shownPost = PostOf(loads[i].post)
            /\ error = ""
            /\ relatedPosts = RelatedOf(loads[i].post)
       ELSE error = ErrorShown(loads[i].message)

\* C28: when the props went from post A to post B and both calls of
\* loadPost have settled, the post, the error and the loading state are
\* those of the call for B, the last one, in whatever order the two
\* settled.
C28_LastLoadWins ==
    (EffectRan /\ \A i \in 1..Len(loads) : Settled(i)) => ResultOf(Len(loads))

\* One call alone leaves its own result.
SingleLoadResult ==
    (Len(loads) = 1 /\ Settled(1)) => ResultOf(1)

\* ---------------------------------------------------------------------
\* BlogCard: the image of the card and its error handler
\* (src/unnamed/part_003, 15-38).  The prop blog is
\* [thumbnailUrl, hasAltUrls, thumbnailAltUrls]: thumbnailUrl is "" when
\* the post has none, and hasAltUrls is FALSE when thumbnailAltUrls is
\* undefined.  The URLs of a blog differ from each other.
\* ---------------------------------------------------------------------
MaxAlts == 3

defaultThumbnail == "generic.jpg"
PrimaryUrl == "thumb.png"
AlternatePool == {"images/thumb.jpg", "images/thumb.png", "post/images/thumb.png"}

RECURSIVE UrlLists(_)
UrlLists(n) ==
    IF n = 0 THEN {<<>>}
    ELSE {<<>>} \cup {<<u>> \o l : u \in AlternatePool, l \in UrlLists(n - 1)}

NoRepeat(l) == \A i, j \in 1..Len(l) : i # j => l[i] # l[j]

Blogs ==
    {[thumbnailUrl |-> t, hasAltUrls |-> TRUE, thumbnailAltUrls |-> l] :
        t \in {"", PrimaryUrl}, l \in {x \in UrlLists(MaxAlts) : NoRepeat(x)}}
    \cup {[thumbnailUrl |-> t, hasAltUrls |-> FALSE, thumbnailAltUrls |-> <<>>] :
        t \in {"", PrimaryUrl}}

\* lines 20-28
getCurrentImageUrl(card, index, fallback) ==
    IF fallback THEN defaultThumbnail
    ELSE IF card.thumbnailUrl = "" THEN defaultThumbnail
    ELSE IF index = 0 THEN card.thumbnailUrl
    ELSE IF card.hasAltUrls /\ index <= Len(card.thumbnailAltUrls)
         THEN card.thumbnailAltUrls[index]
    ELSE defaultThumbnail

\* line 31: blog.thumbnailAltUrls || []
AltUrls(card) == IF card.hasAltUrls THEN card.thumbnailAltUrls ELSE <<>>

\* The handler with the test of line 33 left out.
handleImageErrorUnbounded(card, index, fallback) == <<index + 1, fallback>>

\* lines 30-38: the states <<altUrlIndex, useFallback>> that the handler
\* sets.
handleImageError(card, index, fallback) ==
    IF index < 1 + Len(AltUrls(card))
    THEN <<index + 1, fallback>>
    ELSE <<index, TRUE>>

\* The src of the image after a render: a URL is shown when it is not the
\* one that the image has already.
ShownAfter(shown, u) ==
    IF shown # <<>> /\ shown[Len(shown)] = u THEN shown ELSE Append(shown, u)

CardInit ==
    /\ blog \in Blogs
    /\ altUrlIndex = 0
    /\ useFallback = FALSE
    /\ shownUrls = <<getCurrentImageUrl(blog, 0, FALSE)>>

\* The image fires an error: the handler runs and the card renders again.
ImageError ==
    /\ blog # <<>>
    /\ \E r \in {handleImageError(blog, altUrlIndex, useFallback)} :
        /\ altUrlIndex' = r[1]
        /\ useFallback' = r[2]
        /\ shownUrls' = ShownAfter(shownUrls, getCurrentImageUrl(blog, r[1], r[2]))
    /\ UNCHANGED <<blog, mathVars, dirVars, pipeVars, renderVars, tocVars, loadVars, workerVars>>

InitCard ==
    /\ CardInit
    /\ MathIdle /\ DirIdle /\ PipeIdle /\ RenderIdle
    /\ TocIdle /\ LoadIdle /\ WorkerIdle

SpecCard == InitCard /\ [][ImageError]_vars

\* The URLs of the card in the order of the fallback.
UrlChain(card) ==
    IF card.thumbnailUrl = "" THEN <<defaultThumbnail>>
    ELSE <<card.thumbnailUrl>> \o AltUrls(card) \o <<defaultThumbnail>>

\* The number of times that the state of the card has changed.
StateChanges == altUrlIndex + (IF useFallback THEN 1 ELSE 0)

MaxBlogs == 7

batchSize == 5

InFlightStates == {"match", "add"}
SettledStates == {"cached", "added", "failed"}

\* blogs.slice(i, i + batchSize), as the numbers of the blogs.
BatchOf(i, n) == {k \in 1..n : i < k /\ k <= i + batchSize}

\* The callbacks of the batch have settled when one of them has.
AnySettled(f, batch) == batch = {} \/ \E k \in batch : f[k] \in SettledStates

\* await Promise.all(batch.map(...)): no callback rejects, so the await
\* returns when every callback of the batch has returned.
AllSettled(f, batch) == \A k \in batch : f[k] \in SettledStates

WorkerInit ==
    /\ blogs \in 0..MaxBlogs
    /\ batchStart = 0
    /\ fetches = [k \in 1..blogs |-> "waiting"]
    /\ posted = 0
    /\ workerPc = "message"

\* line 128 and line 132: the message is a PRELOAD_BLOGS with an array;
\* the handler awaits caches.open.
OnMessage ==
    /\ workerPc = "message"
    /\ workerPc' = "open"
    /\ UNCHANGED <<blogs, batchStart, fetches, posted>>
    /\ UNCHANGED <<mathVars, dirVars, pipeVars, renderVars, tocVars, loadVars, cardVars>>

\* line 132: the cache opens; the loop starts at i = 0.
CacheOpens ==
    /\ workerPc = "open"
    /\ workerPc' = "loop"
    /\ batchStart' = 0
    /\ UNCHANGED <<blogs, fetches, posted>>
    /\ UNCHANGED <<mathVars, dirVars, pipeVars, renderVars, tocVars, loadVars, cardVars>>

\* lines 156-158: caches.open throws; the catch logs, and the handler ends.
CacheOpenFails ==
    /\ workerPc = "open"
    /\ workerPc' = "failed"
    /\ UNCHANGED <<blogs, batchStart, fetches, posted>>
    /\ UNCHANGED <<mathVars, dirVars, pipeVars, renderVars, tocVars, loadVars, cardVars>>

\* lines 136-143: i < blogs.length; every callback of the batch runs to
\* its await of cache.match.
StartBatch ==
    /\ workerPc = "loop"
    /\ batchStart < blogs
    /\ fetches' = [k \in 1..blogs |->
                      IF k \in BatchOf(batchStart, blogs) THEN "match" ELSE fetches[k]]
    /\ workerPc' = "batch"
    /\ UNCHANGED <<blogs, batchStart, posted>>
    /\ UNCHANGED <<mathVars, dirVars, pipeVars, renderVars, tocVars, loadVars, cardVars>>

\* lines 142-149: cache.match returns for blog k: the blog is in the
\* cache, or it is not and the callback awaits cache.add, or cache.match
\* throws and the catch of the callback logs.
MatchReturns(k) ==
    /\ fetches[k] = "match"
    /\ \E r \in {"cached", "add", "failed"} : fetches' = [fetches EXCEPT ![k] = r]
    /\ UNCHANGED <<blogs, batchStart, posted, workerPc>>
    /\ UNCHANGED <<mathVars, dirVars, pipeVars, renderVars, tocVars, loadVars, cardVars>>

\* lines 146-149: cache.add returns for blog k, or throws.
AddReturns(k) ==
    /\ fetches[k] = "add"
    /\ \E r \in {"added", "failed"} : fetches' = [fetches EXCEPT ![k] = r]
    /\ UNCHANGED <<blogs, batchStart, posted, workerPc>>
    /\ UNCHANGED <<mathVars, dirVars, pipeVars, renderVars, tocVars, loadVars, cardVars>>

\* lines 136 and 139: the await of Promise.all returns; i += batchSize.
BatchSettles ==
    /\ workerPc = "batch"
    /\ AllSettled(fetches, BatchOf(batchStart, blogs))
    /\ batchStart' = batchStart + batchSize
    /\ workerPc' = "loop"
    /\ UNCHANGED <<blogs, fetches, posted>>
    /\ UNCHANGED <<mathVars, dirVars, pipeVars, renderVars, tocVars, loadVars, cardVars>>

\* lines 136 and 154-155: the loop ends; self.postMessage.
PostComplete ==
    /\ workerPc = "loop"
    /\ batchStart >= blogs
    /\ posted' = posted + 1
    /\ workerPc' = "done"
    /\ UNCHANGED <<blogs, batchStart, fetches>>
    /\ UNCHANGED <<mathVars, dirVars, pipeVars, renderVars, tocVars, loadVars, cardVars>>

InitWorker ==
    /\ WorkerInit
    /\ MathIdle /\ DirIdle /\ PipeIdle /\ RenderIdle
    /\ TocIdle /\ LoadIdle /\ CardIdle

NextWorker ==
    \/ OnMessage
    \/ CacheOpens
    \/ CacheOpenFails
    \/ StartBatch
    \/ \E k \in 1..blogs : MatchReturns(k)
    \/ \E k \in 1..blogs : AddReturns(k)
    \/ BatchSettles
    \/ PostComplete

SpecWorker == InitWorker /\ [][NextWorker]_vars

InFlight == {k \in 1..blogs : fetches[k] \in InFlightStates}
Started == {k \in 1..blogs : fetches[k] # "waiting"}

\* The number of the batch of blog k.
BatchNumber(k) == (k - 1) \div batchSize

\* C30: for one PRELOAD_BLOGS message at most 5 fetches are in flight at
\* any time; no fetch of a batch has started while a fetch of an earlier
\* batch has not settled; PRELOAD_COMPLETE is posted once at most, only
\* when every fetch has settled, failed ones included; the handler ends
\* with one PRELOAD_COMPLETE posted when the cache opened and with none
\* when opening it failed.
C30_BatchesOfFive ==
    /\ [](Cardinality(InFlight) <= 5)
    /\ [](\A j, k \in 1..blogs :
            (BatchNumber(j) < BatchNumber(k) /\ k \in Started)
                => fetches[j] \in SettledStates)
    /\ [](posted <= 1)
    /\ [](posted = 1 => (workerPc = "done" /\ \A k \in 1..blogs : fetches[k] \in SettledStates))
    /\ [](workerPc = "failed" => (posted = 0 /\ Started = {}))
    /\ [](~ENABLED NextWorker =>
            \/ workerPc = "failed" /\ posted = 0
            \/ workerPc = "done" /\ posted = 1)
    /\ [][posted' # posted => (workerPc = "loop" /\ batchStart >= blogs)]_vars

\* The message had more blogs than one batch holds, a fetch of the first
\* batch and one of the last failed, and PRELOAD_COMPLETE has been posted.
C30_Witness ==
    /\ blogs > batchSize
    /\ posted = 1
    /\ fetches[1] = "failed"
    /\ fetches[blogs] = "failed"
    /\ \E k \in 1..blogs : fetches[k] = "added"

====
